---- MODULE Spec2Model ----
(***************************************************************************)
(* State-machine model of the effort controllers of this repository:      *)
(*   - EffortControllerBase                  (effort_controller_base.cpp) *)
(*   - HOCBFCartesianImpedanceController     (hocbf_..._controller.cpp)   *)
(*   - CartesianImpedanceController          (same file, second class)    *)
(*                                                                         *)
(* Number representation.  Every real quantity of the program (lengths,    *)
(* angles, velocities, wrenches, torques) is a fixed-point integer in      *)
(* hundredths: 1.0 is written 100.  Stiffness, damping and Jacobian        *)
(* entries are plain integers (the modelled arm has unit link lengths).   *)
(* NaN and +/-infinity are three reserved values outside the finite range. *)
(*                                                                         *)
(* Robot.  The kinematic chain is a planar serial arm: NumJoints revolute  *)
(* joints about z, one unit-length link after each joint.  Joint angles    *)
(* are multiples of a quarter turn, so forward kinematics and the Jacobian *)
(* are exact.  Rotations are rotations about z, written as their angle in  *)
(* hundredths of a radian modulo a full turn.                              *)
(***************************************************************************)
EXTENDS Integers, Sequences, FiniteSets, TLC

\* ------------------------------------------------------------------ bounds
NumJoints == 2
MaxTime == 1

Joints == 1..NumJoints

\* ------------------------------------------------------- program constants
\* const double max_angle = 1.0;     (hundredths of a radian)
max_angle == 100
\* const double max_distance = 1.0;  (hundredths of a length unit)
max_distance == 100
\* "Only for angles within [0,Pi)": pi in hundredths of a radian
Pi == 314
\* std::nan("0")
NaN == 999999
\* RCLCPP_WARN_THROTTLE(..., clock, 3000, ...): the window, in clock steps of 3 s
throttle_period == 1
\* p.push_back(Eigen::Vector3d::UnitZ() * 0.4): the plane's z coordinate
plane_z == 40

PosInf == NaN - 1
NegInf == 0 - PosInf
TwoPi == 2 * Pi
HalfPi == Pi \div 2
One == max_distance

\* ---------------------------------------------------- IEEE-like arithmetic
IsNaN(x) == x = NaN
IsFinite(x) == x # NaN /\ x # PosInf /\ x # NegInf

\* a >= b on doubles: false as soon as one operand is NaN
Geq(a, b) == ~IsNaN(a) /\ ~IsNaN(b) /\ a >= b
Leq(a, b) == ~IsNaN(a) /\ ~IsNaN(b) /\ a =< b

\* unary minus on doubles
Neg(x) == IF IsNaN(x) THEN NaN ELSE 0 - x

\* a + b on doubles
FAdd(a, b) ==
  IF IsNaN(a) \/ IsNaN(b) THEN NaN
  ELSE IF a = PosInf THEN (IF b = NegInf THEN NaN ELSE PosInf)
  ELSE IF a = NegInf THEN (IF b = PosInf THEN NaN ELSE NegInf)
  ELSE IF b = PosInf \/ b = NegInf THEN b
  ELSE a + b

Abs(x) == IF x < 0 THEN 0 - x ELSE x
Sgn(x) == IF x < 0 THEN 0 - 1 ELSE IF x > 0 THEN 1 ELSE 0

\* std::clamp(v, lo, hi)
Clamp(v, lo, hi) == IF v < lo THEN lo ELSE IF hi < v THEN hi ELSE v

\* smallest s in lo..hi with s*s >= n (the Euclidean norm, rounded up to the
\* grid), by bisection
RECURSIVE SqrtUp(_, _, _)
SqrtUp(n, lo, hi) ==
  IF lo >= hi THEN lo
  ELSE LET mid == (lo + hi) \div 2
       IN  IF mid * mid >= n THEN SqrtUp(n, lo, mid) ELSE SqrtUp(n, mid + 1, hi)

\* sqrt(k) of a stiffness value; exact on the perfect squares the model uses,
\* NaN for a negative argument
Sqrt(k) == IF k < 0 THEN NaN ELSE CHOOSE r \in 0..k : r * r =< k /\ (r + 1) * (r + 1) > k

\* --------------------------------------------------------- KDL::Vector
VZero == <<0, 0, 0>>
VAdd(a, b) == <<a[1] + b[1], a[2] + b[2], a[3] + b[3]>>
VSub(a, b) == <<a[1] - b[1], a[2] - b[2], a[3] - b[3]>>
VScale(a, k) == <<a[1] * k, a[2] * k, a[3] * k>>
Dot(a, b) == a[1] * b[1] + a[2] * b[2] + a[3] * b[3]
Norm2(a) == Dot(a, a)

\* division of a fixed-point product, truncated towards zero
TruncDiv(n, d) == Sgn(n) * (Abs(n) \div d)

\* Normalize returning the length of (1,0,0) for a vector shorter than eps
Normalize_zero_keeps_length(p) ==
  LET n == SqrtUp(Norm2(p), 0, Abs(p[1]) + Abs(p[2]) + Abs(p[3]))
  IN  IF n = 0 THEN [unit |-> [num |-> <<One, 0, 0>>, den |-> One], norm |-> One]
      ELSE [unit |-> [num |-> p, den |-> n], norm |-> n]

\* KDL::Vector::Normalize(): returns the norm and leaves the unit vector in
\* place; a vector shorter than eps becomes (1,0,0) and the norm returned is 0.
\* The unit vector is kept exactly, as the pair (vector, its norm).
Normalize(p) ==
  LET n == SqrtUp(Norm2(p), 0, Abs(p[1]) + Abs(p[2]) + Abs(p[3]))
  IN  IF n = 0 THEN [unit |-> [num |-> <<One, 0, 0>>, den |-> One], norm |-> 0]
      ELSE [unit |-> [num |-> p, den |-> n], norm |-> n]

\* unit vector * scalar (KDL operator*), back on the fixed-point grid
UnitTimes(u, k) ==
  <<TruncDiv(u.num[1] * k, u.den), TruncDiv(u.num[2] * k, u.den),
    TruncDiv(u.num[3] * k, u.den)>>

\* --------------------------------------------------------- KDL::Rotation
\* a rotation about z by angle a, 0 <= a < TwoPi
NormAngle(a) == a % TwoPi
\* M1 * M2
RotMul(a, b) == NormAngle(a + b)
\* M.Inverse()
RotInverse(a) == NormAngle(TwoPi - NormAngle(a))

\* the angles whose sine and cosine the model needs: the quarter turns and
\* their offsets by the half-radian a target orientation may carry
SinC(a) ==
  LET n == NormAngle(a)
  IN  CASE n = 0 -> 0
        [] n = 50 -> 48
        [] n = 107 -> 88
        [] n = 157 -> 100
        [] n = 207 -> 88
        [] n = 264 -> 48
        [] n = 314 -> 0
        [] n = 364 -> 0 - 48
        [] n = 421 -> 0 - 88
        [] n = 471 -> 0 - 100
        [] n = 521 -> 0 - 88
        [] n = 578 -> 0 - 48
CosC(a) == SinC(a + HalfPi)

\* Rotation::GetRotAngle(axis): the angle in [0, pi] and the unit axis
GetRotAngle(a) ==
  LET n == NormAngle(a)
  IN  IF n =< Pi THEN [angle |-> n, axis |-> <<0, 0, 1>>]
      ELSE [angle |-> TwoPi - n, axis |-> <<0, 0, 0 - 1>>]

\* the 3x3 matrix of a rotation by a multiple of a quarter turn (row, column)
RotMat(a) ==
  LET c == CosC(a) \div One
      s == SinC(a) \div One
  IN  <<<<c, 0 - s, 0>>, <<s, c, 0>>, <<0, 0, 1>>>>

Mat3T(A) ==
  <<<<A[1][1], A[2][1], A[3][1]>>, <<A[1][2], A[2][2], A[3][2]>>,
    <<A[1][3], A[2][3], A[3][3]>>>>
Mat3Vec(A, v) == <<Dot(A[1], v), Dot(A[2], v), Dot(A[3], v)>>
Mat3Mul(A, B) ==
  LET Bt == Mat3T(B)
  IN  <<Mat3Vec(Bt, A[1]), Mat3Vec(Bt, A[2]), Mat3Vec(Bt, A[3])>>
Diag3(d) == <<<<d[1], 0, 0>>, <<0, d[2], 0>>, <<0, 0, d[3]>>>>

\* ctrl::Vector6D helpers
Head3(v) == <<v[1], v[2], v[3]>>
Tail3(v) == <<v[4], v[5], v[6]>>
Vec6(a, b) == <<a[1], a[2], a[3], b[1], b[2], b[3]>>
Zero6 == <<0, 0, 0, 0, 0, 0>>
V6Sub(a, b) == Vec6(VSub(Head3(a), Head3(b)), VSub(Tail3(a), Tail3(b)))

\* KDL::Frame
Frame(M, p) == [M |-> M, p |-> p]

\* ------------------------------------------------- kinematics (KDL solvers)
\* a vector with one entry per joint, as the sequence of its entries
JntArray(f) == f \o <<>>

RECURSIVE SumTo(_, _)
SumTo(f, n) == IF n = 0 THEN 0 ELSE f[n] + SumTo(f, n - 1)

RECURSIVE VSumTo(_, _)
VSumTo(f, n) == IF n = 0 THEN VZero ELSE VAdd(f[n], VSumTo(f, n - 1))

\* orientation of segment k (0 is the base) at joint positions q
SegRot(q, k) == NormAngle(SumTo(q, k))
\* origin of segment k's tip: every link is One long, along its own x axis
SegPos(q, k) ==
  VSumTo(JntArray([j \in 1..k |-> <<CosC(SegRot(q, j)), SinC(SegRot(q, j)), 0>>]), k)

\* KDL::ChainFkSolverPos::JntToCart(q, frame): the end-effector frame
JntToCart(q) == Frame(SegRot(q, NumJoints), SegPos(q, NumJoints))

\* the segments of the tree the base class builds from the chain; a link name
\* that is no segment makes TreeFkSolverPos_recursive::JntToCart return an
\* error and leave the default-constructed (identity) frame untouched
SegmentOf(link) ==
  CASE link = "tool0" -> NumJoints
    [] link = "link1" -> 1
    [] OTHER -> 0
JntToCartSegment(q, link) == Frame(SegRot(q, SegmentOf(link)), SegPos(q, SegmentOf(link)))

\* KDL::ChainJntToJacSolver::JntToJac(q, jacobian): row i of the result is
\* column i of the 6 x N Jacobian (reference point: the end effector), in
\* whole length units
JntToJac(q) ==
  JntArray([i \in Joints |->
     LET r == VSub(SegPos(q, NumJoints), SegPos(q, i - 1))
     IN  <<(0 - r[2]) \div One, r[1] \div One, 0, 0, 0, 1>>])

\* jac.transpose() * w
JacTMul(J, w) ==
  JntArray([i \in Joints |-> J[i][1] * w[1] + J[i][2] * w[2] + J[i][3] * w[3]
                             + J[i][4] * w[4] + J[i][5] * w[5] + J[i][6] * w[6]])
\* jac * q_dot
JacCol(J, qd, k) == SumTo(JntArray([i \in Joints |-> J[i][k] * qd[i]]), NumJoints)
JacMul(J, qd) ==
  <<JacCol(J, qd, 1), JacCol(J, qd, 2), JacCol(J, qd, 3),
    JacCol(J, qd, 4), JacCol(J, qd, 5), JacCol(J, qd, 6)>>

\* KDL::ChainDynParam::JntToGravity: a unit weight at every link tip, gravity
\* along -y; the torque that holds joint i is the sum of the lever arms
JntToGravity(q) ==
  JntArray([i \in Joints |->
     SumTo(JntArray([k \in Joints |->
                       IF k >= i THEN SegPos(q, k)[1] - SegPos(q, i - 1)[1] ELSE 0]),
           NumJoints)])

\* KDL::ChainDynParam::JntToCoriolis: quadratic in the joint velocities
JntToCoriolis(q, qd) ==
  JntArray([i \in Joints |->
     SumTo(JntArray([j \in Joints |-> (qd[j] * qd[j]) \div One]), NumJoints)])

\* KDL::ChainDynParam::JntToMass: the joint-space inertia matrix of a unit
\* point mass at every link tip, M[i][j] = sum over the tips k the joints i
\* and j both move of (p_k - p_(i-1)) . (p_k - p_(j-1)), in whole length units
JntToMass(q) ==
  JntArray([i \in Joints |->
     JntArray([j \in Joints |->
        SumTo(JntArray([k \in Joints |->
                 LET a == VSub(SegPos(q, k), SegPos(q, i - 1))
                     b == VSub(SegPos(q, k), SegPos(q, j - 1))
                 IN  IF k >= i /\ k >= j
                     THEN Dot(a, b) \div (One * One)
                     ELSE 0]),
              NumJoints)])])

ZeroN == JntArray([i \in Joints |-> 0])

\* ------------------------------------------------ matrices (ctrl::MatrixND)
\* a matrix is the sequence of its rows
MatT(X) == JntArray([j \in 1..Len(X[1]) |-> JntArray([i \in 1..Len(X) |-> X[i][j]])])
MatMul(X, Y) ==
  JntArray([i \in 1..Len(X) |->
     JntArray([j \in 1..Len(Y[1]) |->
        SumTo(JntArray([k \in 1..Len(Y) |-> X[i][k] * Y[k][j]]), Len(Y))])])
MatVec(X, v) ==
  JntArray([i \in 1..Len(X) |->
     SumTo(JntArray([k \in 1..Len(v) |-> X[i][k] * v[k]]), Len(v))])
MatScale(X, c) ==
  JntArray([i \in 1..Len(X) |-> JntArray([j \in 1..Len(X[i]) |-> c * X[i][j]])])
MatSub(X, Y) ==
  JntArray([i \in 1..Len(X) |-> JntArray([j \in 1..Len(X[i]) |-> X[i][j] - Y[i][j]])])
\* ctrl::MatrixND::Identity(n, n)
Identity(n) == JntArray([i \in 1..n |-> JntArray([j \in 1..n |-> IF i = j THEN 1 ELSE 0])])

\* X without row r and column c
Minor(X, r, c) ==
  JntArray([i \in 1..(Len(X) - 1) |->
     JntArray([j \in 1..(Len(X) - 1) |->
        X[IF i < r THEN i ELSE i + 1][IF j < c THEN j ELSE j + 1]])])
\* the determinant, expanded along the first row
RECURSIVE Det(_)
Det(X) ==
  IF Len(X) = 0 THEN 1
  ELSE SumTo(JntArray([j \in 1..Len(X) |->
                (IF j % 2 = 1 THEN 1 ELSE 0 - 1) * X[1][j] * Det(Minor(X, 1, j))]),
             Len(X))
\* the adjugate: X * Adjugate(X) = Det(X) * Identity
Adjugate(X) ==
  JntArray([i \in 1..Len(X) |->
     JntArray([j \in 1..Len(X) |->
        (IF (i + j) % 2 = 0 THEN 1 ELSE 0 - 1) * Det(Minor(X, j, i))])])

\* pseudoInverse(A, &out) of pseudo_inversion.h: the Moore-Penrose inverse
\* A^+ = A^T (A A^T)^+ of the N x 6 matrix A = jac.transpose(), kept exactly
\* as an integer matrix over a common denominator.  With G = A A^T and
\* C = Adjugate(G): G^+ = C / Det(G) when G is regular; when G has rank N - 1,
\* C / tr(C) is the projector on the kernel of G and
\* G^+ = (G + C / tr(C))^-1 - C / tr(C).
pseudoInverse(A) ==
  LET G == MatMul(A, MatT(A))
      C == Adjugate(G)
      d == Det(G)
      t == SumTo(JntArray([i \in 1..Len(C) |-> C[i][i]]), Len(C))
      S == MatSub(MatScale(G, t), MatScale(C, 0 - 1))
      Gp == IF d # 0 THEN [num |-> C, den |-> d]
            ELSE [num |-> MatSub(MatScale(Adjugate(S), t * t), MatScale(C, Det(S))),
                  den |-> t * Det(S)]
  IN  [num |-> MatMul(MatT(A), Gp.num), den |-> Gp.den]

\* ------------------------------------------------------- FrameTransformer
\* a 6x6 tensor with two 3x3 diagonal blocks
Tensor(top, bottom) == [top |-> top, bottom |-> bottom]
\* tmp.asDiagonal()
AsDiagonal(v) == Tensor(Diag3(Head3(v)), Diag3(Tail3(v)))
\* tensor * vector
TensorMul(T, v) == Vec6(Mat3Vec(T.top, Head3(v)), Mat3Vec(T.bottom, Tail3(v)))

\* displayInBaseLink without the rotation into the base link
displayInBaseLinkVector_no_rotation(vector, from, ik_q) == vector

\* EffortControllerBase::displayInBaseLink(const Vector6D&, from)
displayInBaseLinkVector(vector, from, ik_q) ==
  LET R == RotMat(JntToCartSegment(ik_q, from).M)
  IN  Vec6(Mat3Vec(R, Head3(vector)), Mat3Vec(R, Tail3(vector)))

\* EffortControllerBase::displayInBaseLink(const Matrix6D&, from)
displayInBaseLinkTensor(tensor, from, ik_q) ==
  LET R == RotMat(JntToCartSegment(ik_q, from).M)
  IN  Tensor(Mat3Mul(Mat3Mul(R, tensor.top), Mat3T(R)),
             Mat3Mul(Mat3Mul(R, tensor.bottom), Mat3T(R)))

\* displayInTipLink rotating as displayInBaseLink does
displayInTipLink_no_inverse(vector, to, ik_q) ==
  LET R == RotMat(JntToCartSegment(ik_q, to).M)
  IN  Vec6(Mat3Vec(R, Head3(vector)), Mat3Vec(R, Tail3(vector)))

\* EffortControllerBase::displayInTipLink(const Vector6D&, to)
displayInTipLink(vector, to, ik_q) ==
  LET R == RotMat(RotInverse(JntToCartSegment(ik_q, to).M))
  IN  Vec6(Mat3Vec(R, Head3(vector)), Mat3Vec(R, Tail3(vector)))

\* ------------------------------------------------------ MotionErrorEngine
\* computeMotionError without the clamp of the distance
computeMotionError_no_distance_clamp(target_M, target_p, current) ==
  LET error_M == RotMul(target_M, RotInverse(current.M))
      error_p == VSub(target_p, current.p)
      rot == GetRotAngle(error_M)
      nrm == Normalize(error_p)
      angle == Clamp(rot.angle, 0 - max_angle, max_angle)
  IN  Vec6(UnitTimes(nrm.unit, nrm.norm), VScale(rot.axis, angle))

\* HOCBFCartesianImpedanceController::computeMotionError.  The target frame
\* is read twice, first its rotation and then its position.
computeMotionError(target_M, target_p, current) ==
  LET error_M == RotMul(target_M, RotInverse(current.M))
      error_p == VSub(target_p, current.p)
      rot == GetRotAngle(error_M)
      nrm == Normalize(error_p)
      angle == Clamp(rot.angle, 0 - max_angle, max_angle)
      distance == Clamp(nrm.norm, 0 - max_distance, max_distance)
  IN  Vec6(UnitTimes(nrm.unit, distance), VScale(rot.axis, angle))

\* Rotation::UnitX(), UnitY(), UnitZ()
UnitX(a) == <<CosC(a), SinC(a), 0>>
UnitY(a) == <<0 - SinC(a), CosC(a), 0>>
UnitZ(a) == <<0, 0, One>>
\* KDL operator*(Vector, Vector): the cross product (of two fixed-point vectors)
Cross(a, b) ==
  <<(a[2] * b[3] - a[3] * b[2]) \div One, (a[3] * b[1] - a[1] * b[3]) \div One,
    (a[1] * b[2] - a[2] * b[1]) \div One>>

\* CartesianImpedanceController::computeMotionError: no clamping
CI_computeMotionError(target, current) ==
  LET vel == VSub(current.p, target.p)
      sum == VAdd(VAdd(Cross(UnitX(target.M), UnitX(current.M)),
                       Cross(UnitY(target.M), UnitY(current.M))),
                  Cross(UnitZ(target.M), UnitZ(current.M)))
      rot == <<sum[1] \div 2, sum[2] \div 2, sum[3] \div 2>>
  IN  Vec6(vel, rot)

\* ----------------------------------------------------------- EffortLimiter
\* the saturation without its lower branch
Saturate_no_lower_clamp(effort, limit) == IF Geq(effort, limit) THEN limit ELSE effort

\* the saturation of one joint in writeJointEffortCmds
Saturate(effort, limit) ==
  IF Geq(effort, limit) THEN limit
  ELSE IF Leq(effort, Neg(limit)) THEN Neg(limit)
  ELSE effort

\* ====================================================== the state machine
VARIABLES
  controller,              \* the class the node instantiates: "hocbf" or "ci"
  lc,                      \* lifecycle state the framework keeps for the node
  clock,                   \* get_node()->get_clock()->now(), in steps of 3 s
  hw,                      \* hardware state interfaces: positions, velocities
  hw_cmd,                  \* hardware effort command interfaces, per joint
  params_flags,            \* m_compensate_gravity, m_compensate_coriolis: read
                           \* by computeTorque, assigned by no handler
  m_configured, m_active,
  handles,                 \* sizes of the three handle vectors, in joint lists
  m_joint_names, m_cmd_interface_types, m_joint_effort_limits,
  m_robot_base_link, m_end_effector_link,
  ik_positions,            \* m_ik_solver->getPositions()
  m_joint_positions, m_joint_velocities, m_efforts,
  m_cartesian_stiffness, m_cartesian_damping,
  m_null_space_stiffness, m_null_space_damping,
  m_with_postural_task,    \* CartesianImpedanceController only
  subscribed,              \* the two target subscriptions exist
  m_current_frame, m_target_frame, m_initial_frame, m_received_initial_frame,
  m_target_wrench, m_q_starting_pose, m_last_time,
  m_old_vel_error,         \* the filtered joint velocity of the tick before
  warn_last,               \* RCLCPP_WARN_THROTTLE's time of the last warning
  pc,                      \* position of the control thread inside update()
  tick,                    \* locals of the running computeTorque()
  last                     \* the handler that has just returned: op, arg, ret, log

envVars == <<controller, lc, clock, hw, hw_cmd, params_flags>>
baseCfgVars == <<m_configured, m_joint_names, m_cmd_interface_types, m_joint_effort_limits,
                 m_robot_base_link, m_end_effector_link, ik_positions>>
baseRunVars == <<m_active, handles, m_joint_positions, m_joint_velocities, m_efforts>>
ctrlCfgVars == <<m_cartesian_stiffness, m_cartesian_damping, m_null_space_stiffness,
                 m_null_space_damping, m_with_postural_task, subscribed>>
targetVars == <<m_target_frame, m_initial_frame, m_received_initial_frame, m_target_wrench>>
ctrlRunVars == <<m_current_frame, m_q_starting_pose, m_last_time, m_old_vel_error>>
vars == <<envVars, baseCfgVars, baseRunVars, ctrlCfgVars, targetVars, ctrlRunVars,
          warn_last, pc, tick, last>>

\* ------------------------------------------------------------- input sets
\* joint angles the hardware reports: joint 1 at 0 or at a quarter turn
QVecs == {JntArray([i \in Joints |-> IF i = 1 THEN a ELSE 0]) : a \in {0, HalfPi}}
\* hardware states: what the position and the velocity state interfaces
\* report, sampled with the arm at rest
HwStates == {[pos |-> q, vel |-> ZeroN] : q \in QVecs}

\* robot_model.getJoint(name): the joint's type and effort limit, if it exists
UrdfHasJoint(urdf, j) == j \in Joints
UrdfContinuous(urdf, j) == urdf = "urdf_continuous" /\ j = 1
UrdfEffortLimit(urdf, j) == IF urdf = "urdf_nolimits" THEN 0 ELSE 3 * One
\* robot_tree.getChain(base, tip, chain)
ChainExists(base, tip) == base = "base_link" /\ tip = "tool0"
\* Base::robotChainContains(link)
robotChainContains(link) == link \in {"tool0", "link1"}

GoodParams ==
  {[ik_solver |-> "forward_dynamics", robot_description |-> u.urdf,
    robot_base_link |-> "base_link", end_effector_link |-> "tool0",
    joints |-> JntArray([i \in Joints |-> i]), command_interfaces |-> <<"effort">>,
    ft_sensor_ref_link |-> "tool0", stiffness |-> u.k, nullspace_stiffness |-> u.kn,
    postural_task |-> TRUE] :
   u \in {[urdf |-> "urdf_limited", k |-> <<1, 4, 9, 1, 4, 0>>, kn |-> 0],
          [urdf |-> "urdf_continuous", k |-> <<4, 4, 4, 1, 1, 1>>, kn |-> 4],
          [urdf |-> "urdf_nolimits", k |-> <<4, 4, 4, 1, 1, 1>>, kn |-> 0]}}
TheGood == CHOOSE g \in GoodParams : g.robot_description = "urdf_limited"
\* one defect each
BaseDefects ==
  {[TheGood EXCEPT !.ik_solver = "no_such_plugin"],
   [TheGood EXCEPT !.robot_description = ""],
   [TheGood EXCEPT !.robot_description = "not_xml"],
   [TheGood EXCEPT !.robot_base_link = ""],
   [TheGood EXCEPT !.robot_base_link = "no_such_link"],
   [TheGood EXCEPT !.end_effector_link = ""],
   [TheGood EXCEPT !.end_effector_link = "no_such_link"],
   [TheGood EXCEPT !.joints = <<>>],
   [TheGood EXCEPT !.joints[NumJoints] = 0],
   [TheGood EXCEPT !.command_interfaces = <<>>],
   [TheGood EXCEPT !.command_interfaces = <<"effort", "position">>]}
SensorDefects ==
  {[TheGood EXCEPT !.ft_sensor_ref_link = ""],
   [TheGood EXCEPT !.ft_sensor_ref_link = "no_such_link"]}
ParamSets == GoodParams \cup BaseDefects \cup SensorDefects

\* which interfaces the controller manager has loaned at activation
AllLoaned == [cmd |-> TRUE, pos |-> TRUE, vel |-> TRUE]
AvailSets ==
  {AllLoaned,
   [cmd |-> TRUE, pos |-> FALSE, vel |-> FALSE],
   [cmd |-> FALSE, pos |-> TRUE, vel |-> TRUE]}

\* target poses: a position and a rotation about z
TargetPoses ==
  {[p |-> <<NumJoints * One, One \div 2, 0>>, a |-> One \div 2],
   [p |-> <<0 - One, One, One \div 2>>, a |-> Pi]}
PoseMsgs ==
  {[frame_id |-> f, position |-> u.p, yaw |-> u.a] :
     f \in {"base_link", "tool0"}, u \in TargetPoses}

WrenchMsgs ==
  {[frame_id |-> f, wrench |-> w] :
     f \in {"base_link", "tool0"},
     w \in {<<One, 2 * One, 0, One, 0, One>>}}

\* what the external safety filter may do to the nominal torque
FilterOutcomes == {"pass", "push", "nan", "inf"}

\* the solver's joint state after init(): unknown to this repository
IkInits == QVecs

\* frames computeMotionError may meet
TestFrames ==
  {Frame(a, p) : a \in {0, One \div 2, HalfPi, Pi, Pi + HalfPi},
                 p \in {VZero, <<One \div 2, 0, 0>>, <<One, One, 0>>, <<0 - 3 * One, 0, 4 * One>>}}


Event(e, v) == [ev |-> e, val |-> v]
NoTick == [log |-> <<>>]
IdentityFrame == Frame(0, VZero)
Returned(op, arg, ret, log) == [op |-> op, arg |-> arg, ret |-> ret, log |-> log]
NoCall == Returned("environment", 0, "none", <<>>)

\* the values the two compensation flags may hold
CompensationFlags == [gravity : BOOLEAN, coriolis : BOOLEAN]
NoCompensation == [gravity |-> FALSE, coriolis |-> FALSE]

\* ------------------------------------------------------------ initial states
\* m_received_initial_frame as the class declaration initializes it
NotReceived == FALSE

\* the node after construction: nothing configured, nothing received
Constructed ==
  /\ lc = "unconfigured"
  /\ clock = 0
  /\ hw_cmd = ZeroN
  /\ m_configured = FALSE
  /\ m_active = FALSE
  /\ handles = [cmd |-> 0, pos |-> 0, vel |-> 0]
  /\ m_joint_names = <<>>
  /\ m_cmd_interface_types = <<>>
  /\ m_joint_effort_limits = ZeroN
  /\ m_robot_base_link = ""
  /\ m_end_effector_link = ""
  /\ ik_positions = ZeroN
  /\ m_joint_positions = ZeroN
  /\ m_joint_velocities = ZeroN
  /\ m_efforts = ZeroN
  /\ m_cartesian_stiffness = AsDiagonal(Zero6)
  /\ m_cartesian_damping = AsDiagonal(Zero6)
  /\ m_null_space_stiffness = 0
  /\ m_null_space_damping = 0
  /\ m_with_postural_task = FALSE
  /\ subscribed = FALSE
  /\ m_current_frame = IdentityFrame
  /\ m_target_frame = IdentityFrame
  /\ m_initial_frame = IdentityFrame
  /\ m_received_initial_frame = NotReceived
  /\ m_target_wrench = Zero6
  /\ m_q_starting_pose = ZeroN
  /\ m_last_time = 0
  /\ m_old_vel_error = ZeroN
  /\ warn_last = 0 - throttle_period
  /\ pc = "idle"
  /\ tick = NoTick
  /\ last = NoCall

\* the HOCBF controller, freshly constructed, on a robot in some pose
Init ==
  /\ controller = "hocbf"
  /\ hw \in HwStates
  /\ params_flags \in CompensationFlags
  /\ Constructed

\* the same controller with both compensations off
InitLifecycle ==
  /\ controller = "hocbf"
  /\ hw \in HwStates
  /\ params_flags = NoCompensation
  /\ Constructed

\* either controller class, freshly constructed
InitTargets ==
  /\ controller \in {"hocbf", "ci"}
  /\ hw \in HwStates
  /\ params_flags = NoCompensation
  /\ Constructed

\* a damping equal to the stiffness
CriticalDamping_no_root(k) == k

\* tmp[i] = 2 * sqrt(tmp[i])
CriticalDamping(k) == IF IsNaN(Sqrt(k)) THEN NaN ELSE 2 * Sqrt(k)
\* the six dampings of the six stiffnesses
DampingOf(k) ==
  <<CriticalDamping(k[1]), CriticalDamping(k[2]), CriticalDamping(k[3]),
    CriticalDamping(k[4]), CriticalDamping(k[5]), CriticalDamping(k[6])>>

\* a controller configured with TheGood and activated at the pose q, but for
\* its frames, its efforts, its effort limits and the content of
\* m_joint_velocities
Running(q) ==
  /\ lc = "active"
  /\ clock = 0
  /\ hw = [pos |-> q, vel |-> ZeroN]
  /\ hw_cmd = ZeroN
  /\ params_flags = NoCompensation
  /\ m_configured = TRUE
  /\ m_active = TRUE
  /\ handles = [cmd |-> 1, pos |-> 1, vel |-> 1]
  /\ m_joint_names = TheGood.joints
  /\ m_cmd_interface_types = TheGood.command_interfaces
  /\ m_robot_base_link = TheGood.robot_base_link
  /\ m_end_effector_link = TheGood.end_effector_link
  /\ ik_positions = ZeroN
  /\ m_joint_positions = q
  /\ m_cartesian_stiffness = AsDiagonal(TheGood.stiffness)
  /\ m_cartesian_damping = AsDiagonal(DampingOf(TheGood.stiffness))
  /\ m_null_space_stiffness = TheGood.nullspace_stiffness
  /\ m_null_space_damping = CriticalDamping(TheGood.nullspace_stiffness)
  /\ m_with_postural_task = (controller = "ci" /\ TheGood.postural_task)
  /\ subscribed = TRUE
  /\ m_initial_frame = IdentityFrame
  /\ m_received_initial_frame = NotReceived
  /\ m_target_wrench = Zero6
  /\ m_q_starting_pose = q
  /\ m_last_time = 0
  /\ m_old_vel_error = ZeroN
  /\ warn_last = 0 - throttle_period
  /\ pc = "idle"
  /\ tick = NoTick
  /\ last = NoCall

\* computeMotionError's inputs: any target frame against any current frame
InitMotionError ==
  /\ controller \in {"hocbf", "ci"}
  /\ Running(ZeroN)
  /\ m_joint_velocities = ZeroN
  /\ m_efforts = ZeroN
  /\ m_joint_effort_limits = JntArray([i \in Joints |-> 3 * One])
  /\ m_target_frame \in TestFrames
  /\ m_current_frame \in TestFrames

\* the targets computeTorque is applied to, around the frame the arm is in:
\* the frame itself, offsets of 0.5 and of 2.0 along x, a quarter turn, and
\* the poses a message may carry
TorqueTargets(q) ==
  LET current == JntToCart(q)
  IN  {current,
       Frame(current.M, VAdd(current.p, <<One \div 2, 0, 0>>)),
       Frame(current.M, VAdd(current.p, <<2 * One, 0, 0>>)),
       Frame(RotMul(current.M, HalfPi), current.p)}
      \cup {Frame(u.a, u.p) : u \in TargetPoses}

\* computeTorque's inputs: an active controller of either class in any pose,
\* started in any pose, with the declared default stiffness or one that
\* differs from axis to axis, and any of the targets
InitTorque ==
  /\ controller \in {"hocbf", "ci"}
  /\ lc = "active"
  /\ clock = 0
  /\ hw \in HwStates
  /\ hw_cmd = ZeroN
  /\ params_flags = NoCompensation
  /\ m_configured = TRUE
  /\ m_active = TRUE
  /\ handles = [cmd |-> 1, pos |-> 1, vel |-> 1]
  /\ m_joint_names = TheGood.joints
  /\ m_cmd_interface_types = TheGood.command_interfaces
  /\ m_joint_effort_limits = JntArray([i \in Joints |-> 3 * One])
  /\ m_robot_base_link = TheGood.robot_base_link
  /\ m_end_effector_link = TheGood.end_effector_link
  /\ ik_positions \in IkInits
  /\ m_joint_positions = hw.pos
  /\ m_joint_velocities = ZeroN
  /\ m_efforts = ZeroN
  /\ \E k \in {<<500, 500, 500, 50, 50, 50>>, <<1, 4, 9, 1, 4, 0>>} :
       /\ m_cartesian_stiffness = AsDiagonal(k)
       /\ m_cartesian_damping = AsDiagonal(DampingOf(k))
  /\ \E kn \in {0, 4} :
       /\ m_null_space_stiffness = kn
       /\ m_null_space_damping = CriticalDamping(kn)
  /\ m_with_postural_task \in (IF controller = "ci" THEN BOOLEAN ELSE {FALSE})
  /\ subscribed = TRUE
  /\ m_current_frame = JntToCart(hw.pos)
  /\ m_target_frame \in TorqueTargets(hw.pos)
  /\ m_initial_frame = IdentityFrame
  /\ m_received_initial_frame = NotReceived
  /\ m_target_wrench = Zero6
  /\ m_q_starting_pose \in QVecs
  /\ m_last_time = 0
  /\ m_old_vel_error = ZeroN
  /\ warn_last = 0 - throttle_period
  /\ pc = "idle"
  /\ tick = NoTick
  /\ last = NoCall

\* the compensation's inputs: an active HOCBF controller in any pose, with any
\* value of the two flags; the hardware reports the arm at rest or joint 1
\* turning at 0.1 rad/s, and so does, independently, m_joint_velocities
\* (a member no handler assigns)
InitCompensation ==
  /\ controller = "hocbf"
  /\ lc = "active"
  /\ clock = 0
  /\ hw \in {[h EXCEPT !.vel[1] = v] : h \in HwStates, v \in {0, One \div 10}}
  /\ hw_cmd = ZeroN
  /\ params_flags \in CompensationFlags
  /\ m_configured = TRUE
  /\ m_active = TRUE
  /\ handles = [cmd |-> 1, pos |-> 1, vel |-> 1]
  /\ m_joint_names = TheGood.joints
  /\ m_cmd_interface_types = TheGood.command_interfaces
  /\ m_joint_effort_limits = JntArray([i \in Joints |-> 3 * One])
  /\ m_robot_base_link = TheGood.robot_base_link
  /\ m_end_effector_link = TheGood.end_effector_link
  /\ ik_positions = ZeroN
  /\ m_joint_positions = hw.pos
  /\ m_joint_velocities \in
       {JntArray([i \in Joints |-> IF i = 1 THEN v ELSE 0]) : v \in {0, One \div 10}}
  /\ m_efforts = ZeroN
  /\ m_cartesian_stiffness = AsDiagonal(TheGood.stiffness)
  /\ m_cartesian_damping = AsDiagonal(DampingOf(TheGood.stiffness))
  /\ m_null_space_stiffness = TheGood.nullspace_stiffness
  /\ m_null_space_damping = CriticalDamping(TheGood.nullspace_stiffness)
  /\ m_with_postural_task = FALSE
  /\ subscribed = TRUE
  /\ m_current_frame = JntToCart(hw.pos)
  /\ m_target_frame = JntToCart(hw.pos)
  /\ m_initial_frame = IdentityFrame
  /\ m_received_initial_frame = NotReceived
  /\ m_target_wrench = Zero6
  /\ m_q_starting_pose = hw.pos
  /\ m_last_time = 0
  /\ m_old_vel_error = ZeroN
  /\ warn_last = 0 - throttle_period
  /\ pc = "idle"
  /\ tick = NoTick
  /\ last = NoCall

\* stiffness parameters on_configure may read: the declared defaults, perfect
\* squares, zero, and values that are no squares
StiffnessParams ==
  {[TheGood EXCEPT !.stiffness = k, !.nullspace_stiffness = kn] :
     k \in {<<500, 500, 500, 50, 50, 50>>, <<1, 4, 9, 1, 4, 0>>, <<0, 0, 0, 0, 0, 0>>,
            <<2, 100, 7, 16, 3, 1>>},
     kn \in {0, 4, 10, 25}}

\* writeJointEffortCmds' inputs: any effort against any limit, per joint
InitLimiter ==
  /\ controller = "hocbf"
  /\ Running(ZeroN)
  /\ m_joint_velocities = ZeroN
  /\ m_efforts \in {JntArray(f) :
                      f \in [Joints -> {0 - 4 * One, 0 - 3 * One, 0 - One, 0, 2 * One,
                                        3 * One, 4 * One, NaN, PosInf, NegInf}]}
  /\ m_joint_effort_limits \in {JntArray(f) : f \in [Joints -> {NaN, 0, 3 * One}]}
  /\ m_target_frame = JntToCart(ZeroN)
  /\ m_current_frame = JntToCart(ZeroN)

\* ------------------------------------------------- EffortControllerBase
\* updateJointStates leaving the positions of the tick before in place
updateJointStates_stale(pos_size, garbage) == [q |-> m_joint_positions, log |-> <<>>]

\* EffortControllerBase::updateJointStates(): position handle i is read for
\* every configured joint.  With an empty handle vector the read is out of
\* bounds and yields whatever lies there (garbage).
updateJointStates(pos_size, garbage) ==
  IF pos_size >= 1 THEN [q |-> hw.pos, log |-> <<>>]
  ELSE [q |-> garbage, log |-> <<Event("oob_read", "position")>>]

\* The first check of EffortControllerBase::on_configure that fails for the
\* parameters p, in source order; 0 when none fails.
ConfigureFailStage(p) ==
  CASE p.ik_solver # "forward_dynamics" -> 1
    [] p.robot_description = "" -> 2
    [] p.robot_base_link = "" -> 3
    [] p.end_effector_link = "" -> 4
    [] p.robot_description \notin {"urdf_limited", "urdf_continuous", "urdf_nolimits"} -> 5
    [] ~ChainExists(p.robot_base_link, p.end_effector_link) -> 6
    [] p.joints = <<>> -> 7
    [] \E i \in 1..Len(p.joints) : ~UrdfHasJoint(p.robot_description, p.joints[i]) -> 8
    [] p.command_interfaces = <<>> -> 9
    [] \E i \in 1..Len(p.command_interfaces) : p.command_interfaces[i] # "effort" -> 10
    [] OTHER -> 0

\* the effort limits the parse loop of on_configure leaves behind: joints
\* after the first one missing from the model keep the zero of resize()
ParsedEffortLimits(p) ==
  JntArray([i \in 1..Len(p.joints) |->
     IF \E k \in 1..i : ~UrdfHasJoint(p.robot_description, p.joints[k]) THEN 0
     ELSE IF UrdfContinuous(p.robot_description, p.joints[i]) THEN NaN
     ELSE UrdfEffortLimit(p.robot_description, p.joints[i])])

\* EffortControllerBase::on_configure: the members as the call leaves them.
\* ik_init is the joint state the freshly initialised solver holds, garbage
\* what the trailing updateJointStates() reads.
Base_on_configure(p, ik_init, garbage) ==
  LET st == ConfigureFailStage(p)
      reached(n) == st = 0 \/ st >= n
      same == [ret |-> "SUCCESS", configured |-> m_configured,
               base_link |-> m_robot_base_link, ee_link |-> m_end_effector_link,
               joint_names |-> m_joint_names, limits |-> m_joint_effort_limits,
               ik |-> ik_positions, cmd_types |-> m_cmd_interface_types,
               efforts |-> m_efforts, q |-> m_joint_positions, log |-> <<>>]
      js == updateJointStates(handles.pos, garbage)
  IN  IF m_configured THEN same
      ELSE [ret |-> IF st = 0 THEN "SUCCESS" ELSE "ERROR",
            configured |-> (st = 0),
            base_link |-> IF reached(3) THEN p.robot_base_link ELSE m_robot_base_link,
            ee_link |-> IF reached(4) THEN p.end_effector_link ELSE m_end_effector_link,
            joint_names |-> IF reached(7) THEN p.joints ELSE m_joint_names,
            limits |-> IF reached(8) THEN ParsedEffortLimits(p) ELSE m_joint_effort_limits,
            ik |-> IF reached(9) THEN ik_init ELSE ik_positions,
            cmd_types |-> IF reached(9) THEN p.command_interfaces
                          ELSE m_cmd_interface_types,
            efforts |-> IF st = 0 THEN ZeroN ELSE m_efforts,
            q |-> IF st = 0 THEN js.q ELSE m_joint_positions,
            log |-> IF st = 0 THEN js.log ELSE <<>>]

\* controller_interface::get_ordered_interfaces: the matching loaned
\* interfaces are appended to the handle vector, which is not cleared first;
\* the call succeeds when the vector then holds one handle per joint.
\* The size is counted in joint lists: 0, 1, or 2 for anything longer.
get_ordered_interfaces(size, loaned) ==
  LET n == IF loaned THEN (IF size >= 1 THEN 2 ELSE 1) ELSE size
  IN  [size |-> n, ok |-> (n = 1)]

\* EffortControllerBase::computeJointEffortCmds(error, period)
computeJointEffortCmds(q, error) == JacTMul(JntToJac(q), error)

\* HasEffortType: writeJointEffortCmds writes only under an effort interface type
HasEffortType(types) == \E k \in 1..Len(types) : types[k] = "effort"

\* EffortControllerBase::writeJointEffortCmds(): m_efforts after saturation
SaturatedEfforts(efforts, limits, names, types) ==
  IF HasEffortType(types)
  THEN JntArray([i \in DOMAIN efforts |->
                   IF i \in 1..Len(names) THEN Saturate(efforts[i], limits[i])
                   ELSE efforts[i]])
  ELSE efforts

\* EffortControllerBase::writeJointEffortCmds(): what reaches the hardware.
\* Writing through an empty handle vector is out of bounds: nothing reaches
\* the command interfaces.
writeJointEffortCmds(efforts, limits, names, types, cmd_size, old_cmd) ==
  LET sat == SaturatedEfforts(efforts, limits, names, types)
      writes == HasEffortType(types) /\ Len(names) > 0
  IN  [efforts |-> sat,
       cmd |-> IF writes /\ cmd_size >= 1
               THEN JntArray([i \in DOMAIN old_cmd |->
                                IF i \in 1..Len(names) THEN sat[i] ELSE old_cmd[i]])
               ELSE old_cmd,
       log |-> IF ~writes THEN <<>>
               ELSE IF cmd_size >= 1 THEN <<Event("set_value", sat)>>
               ELSE <<Event("oob_write", sat)>>]

\* EffortControllerBase::on_activate: handle acquisition in source order,
\* then the zero command; the members as the call leaves them
Base_on_activate(avail) ==
  LET c == get_ordered_interfaces(handles.cmd, avail.cmd)
      ps == get_ordered_interfaces(handles.pos, avail.pos)
      v == get_ordered_interfaces(handles.vel, avail.vel)
      h == [cmd |-> c.size,
            pos |-> IF c.ok THEN ps.size ELSE handles.pos,
            vel |-> IF c.ok /\ ps.ok THEN v.size ELSE handles.vel]
      ok == c.ok /\ ps.ok /\ v.ok
      w == writeJointEffortCmds(computeJointEffortCmds(m_joint_positions, Zero6),
                                m_joint_effort_limits, m_joint_names,
                                m_cmd_interface_types, h.cmd, hw_cmd)
  IN  IF m_active
      THEN [ret |-> "SUCCESS", handles |-> handles, efforts |-> m_efforts,
            cmd |-> hw_cmd, active |-> TRUE, log |-> <<>>]
      ELSE IF ~ok
      THEN [ret |-> "ERROR", handles |-> h, efforts |-> m_efforts,
            cmd |-> hw_cmd, active |-> FALSE, log |-> <<>>]
      ELSE [ret |-> "SUCCESS", handles |-> h, efforts |-> w.efforts,
            cmd |-> w.cmd, active |-> TRUE, log |-> w.log]

\* EffortControllerBase::state_interface_configuration: the names the
\* controller manager is asked to loan as state interfaces, one per command
\* interface type and joint ("joint/type", kept as the pair)
state_interface_configuration ==
  LET J == Len(m_joint_names)
      names == JntArray([k \in 1..(Len(m_cmd_interface_types) * J) |->
                          <<m_joint_names[((k - 1) % J) + 1],
                            m_cmd_interface_types[((k - 1) \div J) + 1]>>])
  IN  /\ pc = "idle"
      /\ last.op # "state_interface_configuration"
      /\ last' = Returned("state_interface_configuration",
                          [joints |-> m_joint_names, types |-> m_cmd_interface_types],
                          names, <<>>)
      /\ UNCHANGED <<envVars, baseCfgVars, baseRunVars, ctrlCfgVars, targetVars,
                     ctrlRunVars, warn_last, pc, tick>>

\* EffortControllerBase::on_deactivate
Base_on_deactivate ==
  IF m_active
  THEN [handles |-> [cmd |-> 0, pos |-> 0, vel |-> 0], active |-> FALSE,
        log |-> <<Event("clear", "handles"), Event("release_interfaces", "all")>>]
  ELSE [handles |-> handles, active |-> m_active, log |-> <<>>]

\* ------------------------------------ HOCBFCartesianImpedanceController
\* HOCBFCartesianImpedanceController::on_configure (the steps of
\* CartesianImpedanceController::on_configure are the same).  The framework
\* leaves the node unconfigured when the call returns ERROR.
on_configure(p, ik_init, garbage) ==
  LET b == Base_on_configure(p, ik_init, garbage)
      sensor_ok == robotChainContains(p.ft_sensor_ref_link)
      done == b.ret = "SUCCESS" /\ sensor_ok
  IN  /\ lc = "unconfigured"
      /\ pc = "idle"
      /\ m_configured' = b.configured
      /\ m_robot_base_link' = b.base_link
      /\ m_end_effector_link' = b.ee_link
      /\ m_joint_names' = b.joint_names
      /\ m_joint_effort_limits' = b.limits
      /\ ik_positions' = b.ik
      /\ m_cmd_interface_types' = b.cmd_types
      /\ m_efforts' = b.efforts
      /\ m_joint_positions' = b.q
      /\ IF done
         THEN /\ m_cartesian_stiffness' = AsDiagonal(p.stiffness)
              /\ m_cartesian_damping' =
                   AsDiagonal(DampingOf(p.stiffness))
              /\ m_null_space_stiffness' = p.nullspace_stiffness
              /\ m_null_space_damping' = CriticalDamping(p.nullspace_stiffness)
              /\ m_with_postural_task' = IF controller = "ci" THEN p.postural_task
                                         ELSE m_with_postural_task
              /\ subscribed' = TRUE
         ELSE UNCHANGED ctrlCfgVars
      /\ lc' = IF done THEN "inactive" ELSE "unconfigured"
      /\ last' = Returned("on_configure", p, IF done THEN "SUCCESS" ELSE "ERROR", b.log)
      /\ UNCHANGED <<controller, clock, hw, hw_cmd, params_flags, m_active, handles,
                     m_joint_velocities, targetVars, ctrlRunVars, warn_last, pc, tick>>

\* HOCBFCartesianImpedanceController::on_activate: the result of
\* Base::on_activate is not looked at
on_activate(avail, garbage) ==
  LET b == Base_on_activate(avail)
      js == updateJointStates(b.handles.pos, garbage)
      frame == JntToCart(js.q)
  IN  /\ controller = "hocbf"
      /\ lc = "inactive"
      /\ pc = "idle"
      /\ handles' = b.handles
      /\ m_efforts' = b.efforts
      /\ hw_cmd' = b.cmd
      /\ m_active' = b.active
      /\ m_joint_positions' = js.q
      /\ m_current_frame' = frame
      /\ m_target_frame' = frame
      /\ m_q_starting_pose' = js.q
      /\ m_target_wrench' = Zero6
      /\ m_old_vel_error' = ZeroN
      /\ m_last_time' = clock
      /\ lc' = "active"
      /\ last' = Returned("on_activate", [avail |-> avail, base_ret |-> b.ret], "SUCCESS",
                          b.log \o js.log)
      /\ UNCHANGED <<controller, clock, hw, params_flags, baseCfgVars, m_joint_velocities,
                     ctrlCfgVars, m_initial_frame, m_received_initial_frame, warn_last,
                     pc, tick>>

\* on_deactivate with Base::on_deactivate called before the zero command
DeactivateSteps_release_first ==
  LET b == Base_on_deactivate
      w == writeJointEffortCmds(computeJointEffortCmds(m_joint_positions, Zero6),
                                m_joint_effort_limits, m_joint_names,
                                m_cmd_interface_types, b.handles.cmd, hw_cmd)
  IN  [efforts |-> w.efforts, cmd |-> w.cmd, handles |-> b.handles, active |-> b.active,
       log |-> b.log \o w.log]

\* the body of HOCBFCartesianImpedanceController::on_deactivate, in source
\* order: zero command, write, Base::on_deactivate
DeactivateSteps ==
  LET w == writeJointEffortCmds(computeJointEffortCmds(m_joint_positions, Zero6),
                                m_joint_effort_limits, m_joint_names,
                                m_cmd_interface_types, handles.cmd, hw_cmd)
      b == Base_on_deactivate
  IN  [efforts |-> w.efforts, cmd |-> w.cmd, handles |-> b.handles, active |-> b.active,
       log |-> w.log \o b.log]

on_deactivate ==
  LET d == DeactivateSteps
  IN  /\ controller = "hocbf"
      /\ lc = "active"
      /\ pc = "idle"
      /\ m_efforts' = d.efforts
      /\ hw_cmd' = d.cmd
      /\ handles' = d.handles
      /\ m_active' = d.active
      /\ lc' = "inactive"
      /\ last' = Returned("on_deactivate", [was_active |-> m_active, cmd_before |-> hw_cmd],
                          "SUCCESS", d.log)
      /\ UNCHANGED <<controller, clock, hw, params_flags, baseCfgVars, m_joint_positions,
                     m_joint_velocities, ctrlCfgVars, targetVars, ctrlRunVars, warn_last,
                     pc, tick>>

\* planes_hocbf::hocbfPositionFilter: the external filter rewrites the nominal
\* torque in place; what it returns is not decided by this repository
hocbfPositionFilter(tau, outcome) ==
  CASE outcome = "pass" -> tau
    [] outcome = "push" -> [tau EXCEPT ![1] = tau[1] + One]
    [] outcome = "nan" -> [tau EXCEPT ![1] = NaN]
    [] outcome = "inf" -> [tau EXCEPT ![1] = PosInf]

\* the time since the clock's origin
FilterDt_since_origin(current_time, last_time) == current_time

\* double dt = (current_time - m_last_time).seconds();
FilterDt(current_time, last_time) == current_time - last_time

\* tau_task = J^T (K e - D (J q_dot)), with K and D displayed in the base link,
\* for the Jacobian jac
TaskTorqueWith(jac, q_dot, motion_error, stiffness, damping, ee_link, ik_q) ==
  LET base_link_stiffness == displayInBaseLinkTensor(stiffness, ee_link, ik_q)
      base_link_damping == displayInBaseLinkTensor(damping, ee_link, ik_q)
  IN  JacTMul(jac, V6Sub(TensorMul(base_link_stiffness, motion_error),
                         TensorMul(base_link_damping, JacMul(jac, q_dot))))

\* the same with the Jacobian the solver returns at q
TaskTorque(q, q_dot, motion_error, stiffness, damping, ee_link, ik_q) ==
  TaskTorqueWith(JntToJac(q), q_dot, motion_error, stiffness, damping, ee_link, ik_q)

\* no compensation, whatever the flags say
Compensated_never(tau, q, q_dot, flags) == tau

\* the Coriolis torque added when gravity compensation is enabled
Compensated_coriolis_with_gravity(tau, q, q_dot, flags) ==
  LET g == IF flags.gravity
           THEN JntArray([i \in Joints |-> FAdd(tau[i], JntToGravity(q)[i])]) ELSE tau
  IN  IF flags.gravity
      THEN JntArray([i \in Joints |-> FAdd(g[i], JntToCoriolis(q, q_dot)[i])]) ELSE g

\* the compensation with the gravity torque added whatever the flag says
Compensated_gravity_always(tau, q, q_dot, flags) ==
  LET g == JntArray([i \in Joints |-> FAdd(tau[i], JntToGravity(q)[i])])
  IN  IF flags.coriolis
      THEN JntArray([i \in Joints |-> FAdd(g[i], JntToCoriolis(q, q_dot)[i])]) ELSE g

\* the compensation torques computeTorque adds after the filter call
Compensated(tau, q, q_dot, flags) ==
  LET g == IF flags.gravity
           THEN JntArray([i \in Joints |-> FAdd(tau[i], JntToGravity(q)[i])]) ELSE tau
  IN  IF flags.coriolis
      THEN JntArray([i \in Joints |-> FAdd(g[i], JntToCoriolis(q, q_dot)[i])]) ELSE g

\* EffortControllerBase::computeJointEffortCmds(tau): the overload update()
\* calls with the joint torque ("Saturation of the torque").  It stores the
\* torque as the effort command; the limiter of writeJointEffortCmds follows
\* it, and saturating twice against a non-negative limit commands the same
\* value as saturating once.
computeJointEffortCmdsTau(tau) == tau

\* update(), first part: updateJointStates(), forward kinematics, Jacobian,
\* the clock sample, and computeMotionError's read of the target rotation
update_start(garbage) ==
  LET js == updateJointStates(handles.pos, garbage)
  IN  /\ controller = "hocbf"
      /\ lc = "active"
      /\ pc = "idle"
      /\ m_joint_positions' = js.q
      /\ m_current_frame' = JntToCart(js.q)
      /\ tick' = [log |-> js.log, current_time |-> clock,
                  dt |-> FilterDt(clock, m_last_time),
                  target_M |-> m_target_frame.M, seen_M |-> m_target_frame]
      /\ pc' = "error"
      /\ UNCHANGED <<envVars, baseCfgVars, m_active, handles, m_joint_velocities, m_efforts,
                     ctrlCfgVars, targetVars, m_q_starting_pose, m_last_time,
                     m_old_vel_error, warn_last, last>>

\* update(), second part: computeMotionError's read of the target position,
\* the task torque and the call of the safety filter.  Lambda is kept as the
\* matrix .inverse() is applied to, jac * inertia_matrix.data *
\* jac.transpose(); tau_coriolis is the array constructed before the call,
\* which KDL sets to zero
update_filter(outcome) ==
  LET motion_error == computeMotionError(tick.target_M, m_target_frame.p, m_current_frame)
      q_dot == m_joint_velocities
      tau_task == TaskTorque(m_joint_positions, q_dot, motion_error, m_cartesian_stiffness,
                             m_cartesian_damping, m_end_effector_link, ik_positions)
      jac == JntToJac(m_joint_positions)
      call == [tau_nominal |-> tau_task,
               Lambda |-> [inverse_of |->
                             MatMul(MatMul(MatT(jac), JntToMass(m_joint_positions)), jac)],
               tau_coriolis |-> ZeroN, dot_x |-> JacMul(jac, q_dot), dt |-> tick.dt]
  IN  /\ pc = "error"
      /\ m_last_time' = tick.current_time
      /\ tick' = [log |-> tick.log \o <<Event("filter", call)>>,
                  dt |-> tick.dt, motion_error |-> motion_error, q_dot |-> q_dot,
                  tau_nominal |-> tau_task,
                  tau_filtered |-> hocbfPositionFilter(tau_task, outcome),
                  seen_M |-> tick.seen_M, seen_p |-> m_target_frame]
      /\ pc' = "publish"
      /\ UNCHANGED <<envVars, baseCfgVars, baseRunVars, ctrlCfgVars, targetVars,
                     m_current_frame, m_q_starting_pose, m_old_vel_error, warn_last,
                     last>>

\* update() ending with the target frame moved to the frame the arm is in
update_finish_target_consumed ==
  LET telemetry == <<plane_z, m_current_frame.p[3], m_target_frame.p[3]>>
      tau_tot == Compensated(tick.tau_filtered, m_joint_positions, tick.q_dot, params_flags)
      w == writeJointEffortCmds(computeJointEffortCmdsTau(tau_tot), m_joint_effort_limits,
                                m_joint_names, m_cmd_interface_types, handles.cmd, hw_cmd)
  IN  /\ pc = "publish"
      /\ m_efforts' = w.efforts
      /\ hw_cmd' = w.cmd
      /\ last' = Returned("update",
                          [dt |-> tick.dt, motion_error |-> tick.motion_error,
                           q |-> m_joint_positions, q_dot |-> tick.q_dot,
                           tau_nominal |-> tick.tau_nominal,
                           tau_filtered |-> tick.tau_filtered, tau_tot |-> tau_tot,
                           telemetry |-> telemetry, seen_M |-> tick.seen_M,
                           seen_p |-> tick.seen_p, seen_log |-> m_target_frame],
                          "OK", tick.log \o w.log)
      /\ tick' = NoTick
      /\ pc' = "idle"
      /\ m_target_frame' = m_current_frame
      /\ UNCHANGED <<controller, lc, clock, hw, params_flags, baseCfgVars, m_active, handles,
                     m_joint_positions, m_joint_velocities, ctrlCfgVars, m_initial_frame,
                     m_received_initial_frame, m_target_wrench, ctrlRunVars, warn_last>>

\* update(), last part: the telemetry, the compensation torques,
\* computeJointEffortCmds and writeJointEffortCmds
update_finish ==
  LET telemetry == <<plane_z, m_current_frame.p[3], m_target_frame.p[3]>>
      tau_tot == Compensated(tick.tau_filtered, m_joint_positions, tick.q_dot, params_flags)
      w == writeJointEffortCmds(computeJointEffortCmdsTau(tau_tot), m_joint_effort_limits,
                                m_joint_names, m_cmd_interface_types, handles.cmd, hw_cmd)
  IN  /\ pc = "publish"
      /\ m_efforts' = w.efforts
      /\ hw_cmd' = w.cmd
      /\ last' = Returned("update",
                          [dt |-> tick.dt, motion_error |-> tick.motion_error,
                           q |-> m_joint_positions, q_dot |-> tick.q_dot,
                           tau_nominal |-> tick.tau_nominal,
                           tau_filtered |-> tick.tau_filtered, tau_tot |-> tau_tot,
                           telemetry |-> telemetry, seen_M |-> tick.seen_M,
                           seen_p |-> tick.seen_p, seen_log |-> m_target_frame],
                          "OK", tick.log \o w.log)
      /\ tick' = NoTick
      /\ pc' = "idle"
      /\ UNCHANGED <<controller, lc, clock, hw, params_flags, baseCfgVars, m_active, handles,
                     m_joint_positions, m_joint_velocities, ctrlCfgVars, targetVars,
                     ctrlRunVars, warn_last>>

\* RCLCPP_WARN_THROTTLE: a warning is emitted when the window has passed
\* since the last one emitted
ThrottleOpen(now, last_logged) == now >= last_logged + throttle_period

\* a frame check that lets every message through
WrongFrame_accepts_all(frame_id, base_link) == FALSE

\* the frame check of targetFrameCallback
WrongFrame(frame_id, base_link) == frame_id # base_link

\* the rejection branch both targetFrameCallback variants share
RejectedPose(msg) ==
  /\ warn_last' = IF ThrottleOpen(clock, warn_last) THEN clock ELSE warn_last
  /\ last' = Returned("targetFrameCallback", msg, "void",
                      IF ThrottleOpen(clock, warn_last)
                      THEN <<Event("warn", clock)>> ELSE <<>>)
  /\ UNCHANGED targetVars

\* the first-received frame following every accepted target
FirstFrame_latest(received, initial_frame, target_frame) == target_frame

\* if (!m_received_initial_frame) m_initial_frame = m_target_frame
FirstFrame(received, initial_frame, target_frame) ==
  IF received THEN initial_frame ELSE target_frame

\* HOCBFCartesianImpedanceController::targetFrameCallback
targetFrameCallback(msg) ==
  /\ controller = "hocbf"
  /\ subscribed
  /\ IF WrongFrame(msg.frame_id, m_robot_base_link)
     THEN RejectedPose(msg)
     ELSE /\ m_target_frame' = Frame(msg.yaw, msg.position)
          /\ m_initial_frame' = FirstFrame(m_received_initial_frame, m_initial_frame,
                                           Frame(msg.yaw, msg.position))
          /\ m_received_initial_frame' = TRUE
          /\ last' = Returned("targetFrameCallback", msg, "void", <<>>)
          /\ UNCHANGED <<m_target_wrench, warn_last>>
  /\ UNCHANGED <<envVars, baseCfgVars, baseRunVars, ctrlCfgVars, ctrlRunVars, pc, tick>>

\* CartesianImpedanceController::targetFrameCallback
CI_targetFrameCallback(msg) ==
  /\ controller = "ci"
  /\ subscribed
  /\ IF WrongFrame(msg.frame_id, m_robot_base_link)
     THEN RejectedPose(msg)
     ELSE /\ m_target_frame' = Frame(msg.yaw, msg.position)
          /\ last' = Returned("targetFrameCallback", msg, "void", <<>>)
          /\ UNCHANGED <<m_initial_frame, m_received_initial_frame, m_target_wrench,
                         warn_last>>
  /\ UNCHANGED <<envVars, baseCfgVars, baseRunVars, ctrlCfgVars, ctrlRunVars, pc, tick>>

\* the wrench HOCBF's targetWrenchCallback stores for a message
StoredWrench(msg, base_link, ik_q) ==
  IF msg.frame_id # base_link
  THEN displayInBaseLinkVector(msg.wrench, msg.frame_id, ik_q)
  ELSE msg.wrench

\* HOCBFCartesianImpedanceController::targetWrenchCallback
targetWrenchCallback(msg) ==
  /\ controller = "hocbf"
  /\ subscribed
  /\ m_target_wrench' = StoredWrench(msg, m_robot_base_link, ik_positions)
  /\ last' = Returned("targetWrenchCallback", msg, "void", <<>>)
  /\ UNCHANGED <<envVars, baseCfgVars, baseRunVars, ctrlCfgVars, ctrlRunVars,
                 m_target_frame, m_initial_frame, m_received_initial_frame, warn_last,
                 pc, tick>>

\* CartesianImpedanceController::targetWrenchCallback
CI_targetWrenchCallback(msg) ==
  /\ controller = "ci"
  /\ subscribed
  /\ m_target_wrench' = msg.wrench
  /\ last' = Returned("targetWrenchCallback", msg, "void", <<>>)
  /\ UNCHANGED <<envVars, baseCfgVars, baseRunVars, ctrlCfgVars, ctrlRunVars,
                 m_target_frame, m_initial_frame, m_received_initial_frame, warn_last,
                 pc, tick>>

\* ----------------------------------------- CartesianImpedanceController
\* the weight of the velocity filter, in hundredths: a member the class
\* declaration initialises; computeTorque reads it
m_alpha == 50

\* q_dot = m_alpha * q_dot + (1 - m_alpha) * m_old_vel_error, then
\* std::round(q_dot(i) * 1000) / 1000 per joint: the weighted mean, rounded
\* half away from zero to the grid (the model's grid is the hundredth)
CI_FilteredVelocity(q_dot, old_vel_error) ==
  JntArray([i \in 1..Len(q_dot) |->
     LET n == m_alpha * q_dot[i] + (One - m_alpha) * old_vel_error[i]
     IN  Sgn(n) * ((2 * Abs(n) + One) \div (2 * One))])

\* tau_task = J^T (-K e - D (J q_dot)): the tensors are used as configured
CI_TaskTorque(jac, q_dot, motion_error, stiffness, damping) ==
  JacTMul(jac, V6Sub(V6Sub(Zero6, TensorMul(stiffness, motion_error)),
                     TensorMul(damping, JacMul(jac, q_dot))))

\* a projector that is the identity
NullSpaceProjector_identity(jac) == [num |-> Identity(Len(jac)), den |-> 1]

\* m_identity - jac.transpose() * jac_tran_pseudo_inverse, over the
\* denominator of the pseudo-inverse (jac is kept as jac.transpose())
NullSpaceProjector(jac) ==
  LET pinv == pseudoInverse(jac)
  IN  [num |-> MatSub(MatScale(Identity(Len(jac)), pinv.den), MatMul(jac, pinv.num)),
       den |-> pinv.den]

\* tau_null = P * (m_null_space_stiffness * (-q + q_null_space)
\*                 - m_null_space_damping * q_dot), back on the fixed-point grid
NullSpaceTorque(P, q, q_dot, q_null_space, k_null, d_null) ==
  LET w == JntArray([i \in 1..Len(q) |->
                       k_null * (q_null_space[i] - q[i]) - d_null * q_dot[i]])
      Pw == MatVec(P.num, w)
  IN  JntArray([i \in 1..Len(w) |-> TruncDiv(Pw[i] * Sgn(P.den), Abs(P.den))])

\* the postural term added whatever the flag says
PosturalTerm_always(with_postural_task, tau_null) == tau_null

\* m_with_postural_task * tau_null: the flag as the factor 1 or 0
PosturalTerm(with_postural_task, tau_null) ==
  JntArray([i \in 1..Len(tau_null) |->
     IF with_postural_task THEN tau_null[i]
     ELSE IF IsFinite(tau_null[i]) THEN 0 ELSE NaN])

\* CartesianImpedanceController::computeTorque for the Jacobian jac
CI_computeTorque(jac, q, q_dot_read, old_vel_error, target, q_starting_pose, stiffness, damping, k_null, d_null, with_postural_task) ==
  LET current == JntToCart(q)
      motion_error == CI_computeMotionError(target, current)
      q_dot == CI_FilteredVelocity(q_dot_read, old_vel_error)
      tau_task == CI_TaskTorque(jac, q_dot, motion_error, stiffness, damping)
      P == NullSpaceProjector(jac)
      tau_null == NullSpaceTorque(P, q, q_dot, q_starting_pose, k_null, d_null)
      term == PosturalTerm(with_postural_task, tau_null)
  IN  [motion_error |-> motion_error, q_dot |-> q_dot,
       stiffness_wrench |-> V6Sub(Zero6, TensorMul(stiffness, motion_error)),
       tau_task |-> tau_task, projector |-> P, tau_null |-> tau_null,
       tau |-> JntArray([i \in 1..Len(q) |-> FAdd(tau_task[i], term[i])])]

\* CartesianImpedanceController::update: updateJointStates(), computeTorque(),
\* computeJointEffortCmds(tau_tot), writeJointEffortCmds()
CI_update(garbage) ==
  LET js == updateJointStates(handles.pos, garbage)
      t == CI_computeTorque(JntToJac(js.q), js.q, m_joint_velocities, m_old_vel_error,
                            m_target_frame, m_q_starting_pose, m_cartesian_stiffness,
                            m_cartesian_damping, m_null_space_stiffness,
                            m_null_space_damping, m_with_postural_task)
      w == writeJointEffortCmds(computeJointEffortCmdsTau(t.tau), m_joint_effort_limits,
                                m_joint_names, m_cmd_interface_types, handles.cmd, hw_cmd)
  IN  /\ controller = "ci"
      /\ lc = "active"
      /\ pc = "idle"
      /\ m_joint_positions' = js.q
      /\ m_current_frame' = JntToCart(js.q)
      /\ m_old_vel_error' = t.q_dot
      /\ m_efforts' = w.efforts
      /\ hw_cmd' = w.cmd
      /\ last' = Returned("update",
                          [q |-> js.q, q_dot_read |-> m_joint_velocities,
                           target |-> m_target_frame,
                           q_starting_pose |-> m_q_starting_pose,
                           q_dot |-> t.q_dot, tau_tot |-> t.tau],
                          "OK", js.log \o w.log)
      /\ UNCHANGED <<controller, lc, clock, hw, params_flags, baseCfgVars, m_active, handles,
                     m_joint_velocities, ctrlCfgVars, targetVars, m_q_starting_pose,
                     m_last_time, warn_last, pc, tick>>

\* HOCBFCartesianImpedanceController::computeTorque up to the nominal torque
\* it hands to the safety filter, for the Jacobian jac; the null space torque
\* is not computed and no projector is built
HOCBF_nominalTorque(jac, q, q_dot, target, stiffness, damping, ee_link, ik_q) ==
  LET current == JntToCart(q)
      motion_error == computeMotionError(target.M, target.p, current)
      tau_task == TaskTorqueWith(jac, q_dot, motion_error, stiffness, damping, ee_link, ik_q)
  IN  [motion_error |-> motion_error, q_dot |-> q_dot,
       stiffness_wrench |->
         TensorMul(displayInBaseLinkTensor(stiffness, ee_link, ik_q), motion_error),
       tau_task |-> tau_task, projector |-> [num |-> <<>>, den |-> 1],
       tau_null |-> ZeroN, tau |-> tau_task]

\* ------------------------------------------- the functions, applied alone
\* computeMotionError() of the instantiated class on the frames the node holds
apply_computeMotionError ==
  /\ last.op # "computeMotionError"
  /\ last' = Returned("computeMotionError",
                      [target |-> m_target_frame, current |-> m_current_frame],
                      IF controller = "hocbf"
                      THEN computeMotionError(m_target_frame.M, m_target_frame.p,
                                              m_current_frame)
                      ELSE CI_computeMotionError(m_target_frame, m_current_frame),
                      <<>>)
  /\ UNCHANGED <<envVars, baseCfgVars, baseRunVars, ctrlCfgVars, targetVars, ctrlRunVars,
                 warn_last, pc, tick>>

\* the Jacobian of the same chain with a last link of no length: the axes of
\* the last two joints coincide, and so do their columns
CoaxialWrist(jac) == [jac EXCEPT ![NumJoints] = jac[NumJoints - 1]]

\* computeTorque() of the instantiated class on the state the node holds,
\* with the Jacobian jac
apply_computeTorque(jac) ==
  LET args == [jac |-> jac, q |-> m_joint_positions, q_dot |-> m_joint_velocities,
               target |-> m_target_frame, q_starting_pose |-> m_q_starting_pose,
               stiffness |-> m_cartesian_stiffness, damping |-> m_cartesian_damping,
               null_space_stiffness |-> m_null_space_stiffness,
               null_space_damping |-> m_null_space_damping,
               with_postural_task |-> m_with_postural_task]
      ret == IF controller = "hocbf"
             THEN HOCBF_nominalTorque(jac, m_joint_positions, m_joint_velocities,
                    m_target_frame, m_cartesian_stiffness, m_cartesian_damping,
                    m_end_effector_link, ik_positions)
             ELSE CI_computeTorque(jac, m_joint_positions, m_joint_velocities,
                    m_old_vel_error, m_target_frame, m_q_starting_pose,
                    m_cartesian_stiffness, m_cartesian_damping, m_null_space_stiffness,
                    m_null_space_damping, m_with_postural_task)
  IN  /\ last.op # "computeTorque"
      /\ m_current_frame' = JntToCart(m_joint_positions)
      /\ m_old_vel_error' = IF controller = "ci" THEN ret.q_dot ELSE m_old_vel_error
      /\ last' = Returned("computeTorque", args, ret, <<>>)
      /\ UNCHANGED <<envVars, baseCfgVars, baseRunVars, ctrlCfgVars, targetVars,
                     m_q_starting_pose, m_last_time, warn_last, pc, tick>>

\* displayInBaseLink(vector, link) followed by displayInTipLink of the result
\* for the same link
apply_display(vector, link) ==
  LET base == displayInBaseLinkVector(vector, link, ik_positions)
  IN  /\ last.op # "display"
      /\ last' = Returned("display",
                          [vector |-> vector, link |-> link, q |-> ik_positions],
                          [base |-> base, tip |-> displayInTipLink(base, link, ik_positions)],
                          <<>>)
      /\ UNCHANGED <<envVars, baseCfgVars, baseRunVars, ctrlCfgVars, targetVars,
                     ctrlRunVars, warn_last, pc, tick>>

\* writeJointEffortCmds() on the efforts and limits the node holds
apply_writeJointEffortCmds ==
  LET w == writeJointEffortCmds(m_efforts, m_joint_effort_limits, m_joint_names,
                                m_cmd_interface_types, handles.cmd, hw_cmd)
  IN  /\ last.op # "writeJointEffortCmds"
      /\ m_efforts' = w.efforts
      /\ hw_cmd' = w.cmd
      /\ last' = Returned("writeJointEffortCmds",
                          [efforts |-> m_efforts, limits |-> m_joint_effort_limits],
                          "void", w.log)
      /\ UNCHANGED <<controller, lc, clock, hw, params_flags, baseCfgVars, m_active, handles,
                     m_joint_positions, m_joint_velocities, ctrlCfgVars, targetVars,
                     ctrlRunVars, warn_last, pc, tick>>

\* ------------------------------------------------------------ environment
\* time passes (a tick samples the clock once, at its start)
ClockTick ==
  /\ pc = "idle"
  /\ clock < MaxTime
  /\ clock' = clock + 1
  /\ last' = NoCall
  /\ UNCHANGED <<controller, lc, hw, hw_cmd, params_flags, baseCfgVars, baseRunVars,
                 ctrlCfgVars, targetVars, ctrlRunVars, warn_last, pc, tick>>

\* the robot moves (a tick reads the joint states once, at its start)
HwMove ==
  /\ pc = "idle"
  /\ hw' \in HwStates \ {hw}
  /\ last' = NoCall
  /\ UNCHANGED <<controller, lc, clock, hw_cmd, params_flags, baseCfgVars, baseRunVars,
                 ctrlCfgVars, targetVars, ctrlRunVars, warn_last, pc, tick>>

\* --------------------------------------------------------- specifications
\* the control loop of a well-configured HOCBF controller: lifecycle, ticks,
\* and accepted target poses arriving at any point of a tick
Next ==
  \/ \E p \in GoodParams, g \in QVecs : on_configure(p, ZeroN, g)
  \/ \E g \in QVecs : on_activate(AllLoaned, g)
  \/ on_deactivate
  \/ \E g \in QVecs : update_start(g)
  \/ \E o \in FilterOutcomes : update_filter(o)
  \/ update_finish
  \/ \E m \in {u \in PoseMsgs : u.frame_id = "base_link" /\ u.yaw = Pi} :
       targetFrameCallback(m)
  \/ ClockTick
  \/ HwMove

Spec == Init /\ [][Next]_vars

\* the lifecycle under every parameter set and every loan
NextLifecycle ==
  \/ \E p \in ParamSets, ik \in IkInits, g \in QVecs : on_configure(p, ik, g)
  \/ \E a \in AvailSets, g \in QVecs : on_activate(a, g)
  \/ on_deactivate
  \/ state_interface_configuration

SpecLifecycle == InitLifecycle /\ [][NextLifecycle]_vars

\* the target subscriptions of both controller classes under every message
NextTargets ==
  \/ \E ik \in IkInits, g \in QVecs : on_configure(TheGood, ik, g)
  \/ \E g \in QVecs : on_activate(AllLoaned, g)
  \/ on_deactivate
  \/ \E m \in PoseMsgs : targetFrameCallback(m)
  \/ \E m \in PoseMsgs : CI_targetFrameCallback(m)
  \/ \E m \in WrenchMsgs : targetWrenchCallback(m)
  \/ \E m \in WrenchMsgs : CI_targetWrenchCallback(m)
  \/ ClockTick

SpecTargets == InitTargets /\ [][NextTargets]_vars

\* computeMotionError on every pair of frames
SpecMotionError == InitMotionError /\ [][apply_computeMotionError]_vars

\* computeTorque on every target and stiffness, with the Jacobian the solver
\* returns and with that of the coaxial wrist
SpecTorque ==
  InitTorque /\ [][\E jac \in {JntToJac(m_joint_positions),
                                CoaxialWrist(JntToJac(m_joint_positions))} :
                     apply_computeTorque(jac)]_vars

\* the ticks of a controller with any velocity and any compensation flags
NextCompensation ==
  \/ \E g \in QVecs : update_start(g)
  \/ \E o \in FilterOutcomes : update_filter(o)
  \/ update_finish

SpecCompensation == InitCompensation /\ [][NextCompensation]_vars

\* the ticks of a CartesianImpedanceController activated in any pose, with
\* m_joint_velocities at rest or holding 0.64 rad/s on joint 1, while the arm
\* moves and target poses arrive
InitImpedance ==
  /\ controller = "ci"
  /\ \E q \in QVecs : Running(q) /\ m_target_frame = JntToCart(q)
                                  /\ m_current_frame = JntToCart(q)
  /\ m_joint_velocities \in {ZeroN, [ZeroN EXCEPT ![1] = 64]}
  /\ m_efforts = ZeroN
  /\ m_joint_effort_limits = JntArray([i \in Joints |-> 3 * One])

SpecImpedance ==
  InitImpedance /\ [][\/ \E g \in QVecs : CI_update(g)
                      \/ \E m \in PoseMsgs : CI_targetFrameCallback(m)
                      \/ HwMove]_vars

\* the life of an HOCBF controller: configuration, activation, target poses
\* in either frame, ticks, deactivation
NextFirstFrame ==
  \/ \E g \in QVecs : on_configure(TheGood, ZeroN, g)
  \/ \E g \in QVecs : on_activate(AllLoaned, g)
  \/ on_deactivate
  \/ \E m \in PoseMsgs : targetFrameCallback(m)
  \/ \E g \in QVecs : update_start(g)
  \/ \E o \in FilterOutcomes : update_filter(o)
  \/ update_finish

SpecFirstFrame == InitLifecycle /\ [][NextFirstFrame]_vars

\* activations, ticks and deactivations of an HOCBF controller while the
\* clock advances and the arm moves
SpecTiming ==
  InitLifecycle /\ [][\/ \E g \in QVecs : on_configure(TheGood, ZeroN, g)
                      \/ \E g \in QVecs : on_activate(AllLoaned, g)
                      \/ on_deactivate
                      \/ \E g \in QVecs : update_start(g)
                      \/ \E o \in FilterOutcomes : update_filter(o)
                      \/ update_finish
                      \/ ClockTick
                      \/ HwMove]_vars

\* the display functions on every wrench, link and solver pose
SpecDisplay ==
  InitTorque /\ [][\E fx \in {0, One, 0 - 2 * One}, fy \in {0, 2 * One}, tx \in {0, One},
                      link \in {"base_link", "link1", "tool0"} :
                     apply_display(<<fx, fy, One \div 2, tx, 0, One>>, link)]_vars

\* on_configure of either class on every stiffness
SpecConfigure ==
  InitTargets /\ [][\E p \in StiffnessParams, ik \in IkInits, g \in QVecs :
                      on_configure(p, ik, g)]_vars

\* writeJointEffortCmds on every effort and limit
SpecLimiter == InitLimiter /\ [][apply_writeJointEffortCmds]_vars

\* ------------------------------------------------------------------ claims
\* what the limiter is to command for the effort t under the limit L
C1_Expected(t, L) ==
  IF L = NaN THEN t
  ELSE IF t # NaN /\ t > L THEN L
  ELSE IF t # NaN /\ t < 0 - L THEN 0 - L
  ELSE t

\* C1: for every joint, writeJointEffortCmds commands +limit when the effort
\* exceeds the finite limit, -limit when it is below -limit, the effort itself
\* otherwise, and always the effort itself when the limit is NaN.
C1_saturation ==
  last.op = "writeJointEffortCmds" =>
    \A i \in Joints : hw_cmd[i] = C1_Expected(last.arg.efforts[i], last.arg.limits[i])

\* C1 happens: one joint is clamped to its finite limit while another, with a
\* NaN limit, passes an effort larger than any finite limit of the model
C1_witness ==
  /\ last.op = "writeJointEffortCmds"
  /\ \E i, j \in Joints :
       /\ last.arg.limits[i] = 3 * One
       /\ last.arg.efforts[i] = 4 * One
       /\ hw_cmd[i] = 3 * One
       /\ last.arg.limits[j] = NaN
       /\ last.arg.efforts[j] = 0 - 4 * One
       /\ hw_cmd[j] = 0 - 4 * One

\* a 3-vector no longer than 1.0
C2_Bounded(v) == Norm2(v) =< One * One

\* C2 (as amended): the HOCBF controller's computeMotionError returns a
\* translation block and a rotation block of magnitude at most 1.0 for every
\* pair of frames; the CartesianImpedanceController variant returns the
\* difference of the positions unclamped, and a rotation block of at most 1.0.
C2_clamped_variant_bounded ==
  last.op = "computeMotionError" =>
    IF controller = "hocbf"
    THEN C2_Bounded(Head3(last.ret)) /\ C2_Bounded(Tail3(last.ret))
    ELSE /\ Head3(last.ret) = VSub(last.arg.current.p, last.arg.target.p)
         /\ C2_Bounded(Tail3(last.ret))

\* C2 happens: the HOCBF variant met frames more than 1.0 apart and more than
\* 1.0 rad apart, and returned a non-zero error
C2_witness ==
  /\ last.op = "computeMotionError"
  /\ controller = "hocbf"
  /\ ~C2_Bounded(VSub(last.arg.target.p, last.arg.current.p))
  /\ last.arg.target.M = Pi /\ last.arg.current.M = 0
  /\ Norm2(Head3(last.ret)) > 0
  /\ Norm2(Tail3(last.ret)) > 0

\* C2 (as stated): whatever the variant, both blocks of the error returned by
\* computeMotionError have a magnitude of at most 1.0.
C2_every_variant_bounded ==
  last.op = "computeMotionError" =>
    C2_Bounded(Head3(last.ret)) /\ C2_Bounded(Tail3(last.ret))

\* C3: no non-finite value is ever written to a command handle, and a tick
\* whose final torque holds a non-finite value writes zero to every handle.
C3_fail_closed ==
  /\ \A i \in Joints : IsFinite(hw_cmd[i])
  /\ (last.op = "update" /\ \E i \in Joints : ~IsFinite(last.arg.tau_tot[i]))
       => hw_cmd = ZeroN

\* C4: deactivating an active controller writes zero to every command handle,
\* then clears the handles, then releases the interfaces; nothing else is
\* written, and the command interfaces are left at zero.
C4_zero_before_release ==
  (last.op = "on_deactivate" /\ last.arg.was_active) =>
    /\ hw_cmd = ZeroN
    /\ \E i, j, k \in DOMAIN last.log :
         /\ i < j /\ j < k
         /\ last.log[i].ev = "set_value" /\ last.log[i].val = ZeroN
         /\ last.log[j].ev = "clear"
         /\ last.log[k].ev = "release_interfaces"
         /\ \A n \in DOMAIN last.log :
              last.log[n].ev \in {"set_value", "oob_write"} => n = i

\* C4 happens: an active controller that was commanding a non-zero torque
\* has been deactivated
C4_witness ==
  /\ last.op = "on_deactivate"
  /\ last.arg.was_active
  /\ last.arg.cmd_before # ZeroN
  /\ hw_cmd = ZeroN
  /\ handles.cmd = 0

\* the calls of the safety filter in the tick that has just returned
C5_FilterCalls == {k \in DOMAIN last.log : last.log[k].ev = "filter"}

\* C5: every tick calls the safety filter exactly once, with a dt that is
\* strictly positive.
C5_filter_once_positive_dt ==
  last.op = "update" =>
    /\ Cardinality(C5_FilterCalls) = 1
    /\ \A k \in C5_FilterCalls : last.log[k].val.dt > 0

\* C6: a target pose message whose frame id is not the configured base link
\* leaves the target frame, the first-received frame and the received flag as
\* they were.
C6_wrong_frame_pose_rejected ==
  [][(last'.op = "targetFrameCallback" /\ last'.arg.frame_id # m_robot_base_link)
       => UNCHANGED <<m_target_frame, m_initial_frame, m_received_initial_frame>>]_vars

\* C6 happens: a pose in a wrong frame arrived after a target had been
\* accepted, and the accepted target is still there
C6_witness ==
  /\ last.op = "targetFrameCallback"
  /\ last.arg.frame_id # m_robot_base_link
  /\ m_target_frame # Frame(last.arg.yaw, last.arg.position)
  /\ \E m \in PoseMsgs : m_target_frame = Frame(m.yaw, m.position)

\* the wrench w turned about z by the angle a (a multiple of a quarter turn)
C7_Rotated(w, a) ==
  LET c == CosC(a) \div One
      s == SinC(a) \div One
  IN  <<c * w[1] - s * w[2], s * w[1] + c * w[2], w[3],
        c * w[4] - s * w[5], s * w[4] + c * w[5], w[6]>>

C8_one_snapshot_per_tick ==
  last.op = "update" =>
    /\ last.arg.seen_M = last.arg.seen_p
    /\ last.arg.seen_p = last.arg.seen_log

\* the parameter sets with one of the defects C9 lists
C9_Defects ==
  {p \in BaseDefects \cup SensorDefects :
     p.ik_solver = TheGood.ik_solver /\ p.robot_description # "not_xml"}

\* C9: on_configure with one of the listed defects returns ERROR and leaves
\* the configured flag false.
C9_defect_is_fatal ==
  (last.op = "on_configure" /\ last.arg \in C9_Defects) =>
    (last.ret = "ERROR" /\ ~m_configured)

\* the tick that has just returned ran with the joints at the activation
\* pose, at rest, and with the target still the activation frame
C10_AtRest ==
  /\ last.op = "update"
  /\ last.arg.q = m_q_starting_pose
  /\ last.arg.q_dot = ZeroN
  /\ last.arg.seen_M = m_current_frame
  /\ last.arg.seen_p = m_current_frame
  /\ last.arg.seen_log = m_current_frame

\* C10 (as amended): at rest at the activation pose the nominal task torque
\* handed to the safety filter is zero on every joint, and the commanded
\* torque is zero on every joint when the filter returns that torque
\* unchanged and gravity compensation is off.
C10_rest_nominal_zero ==
  C10_AtRest =>
    /\ last.arg.tau_nominal = ZeroN
    /\ (last.arg.tau_filtered = last.arg.tau_nominal /\ ~params_flags.gravity)
         => hw_cmd = ZeroN

\* C10 happens: a tick at rest, with joints that have a non-zero effort limit,
\* a filter that changed nothing and no gravity compensation
C10_witness ==
  /\ C10_AtRest
  /\ last.arg.tau_filtered = last.arg.tau_nominal
  /\ ~params_flags.gravity
  /\ \A i \in Joints : m_joint_effort_limits[i] = 3 * One
  /\ last.arg.q = ZeroN
  /\ hw_cmd = ZeroN

\* C10 (as stated): at rest at the activation pose every tick commands zero
\* torque on every joint.
C10_rest_commands_zero ==
  C10_AtRest => \A i \in Joints : hw_cmd[i] = 0

\* C11: whatever the Jacobian and the stiffness and damping tensors, when the
\* target frame is the frame the arm is in and the joint velocity is zero,
\* computeMotionError returns the zero vector and the nominal task torque is
\* the zero vector, in the clamped variant and in the cross-product variant.
C11_zero_error_zero_torque ==
  (/\ last.op = "computeTorque"
   /\ last.arg.target = JntToCart(last.arg.q)
   /\ last.arg.q_dot = ZeroN)
  => (last.ret.motion_error = Zero6 /\ last.ret.tau_task = ZeroN)

\* C11 happens: the cross-product variant computed the torque for a target
\* equal to the frame of the arm turned by a quarter, with the default
\* stiffness and the Jacobian of the coaxial wrist
C11_witness ==
  /\ last.op = "computeTorque"
  /\ controller = "ci"
  /\ last.arg.q[1] = HalfPi
  /\ last.arg.target = JntToCart(last.arg.q)
  /\ last.arg.q_dot = ZeroN
  /\ last.arg.stiffness = AsDiagonal(<<500, 500, 500, 50, 50, 50>>)
  /\ last.arg.jac = CoaxialWrist(JntToJac(last.arg.q))
  /\ last.ret.tau_task = ZeroN

\* C12: the clamp of the HOCBF controller rescales the translation error
\* without turning it.  When target minus current is longer than 1.0, the
\* translation error points along it and has length 1.0 (up to the rounding
\* of the grid); when it is not longer than 1.0, the translation error is
\* target minus current.  An offset of 2.0 along x with a translational
\* stiffness of 500 and zero velocity gives the translation error (1,0,0)
\* and 500 as the x-component of the stiffness wrench.
C12_Offset == VSub(last.arg.target.p, JntToCart(last.arg.q).p)
C12_Parallel(e, d) ==
  /\ \A i, j \in 1..3 : Abs(e[i] * d[j] - e[j] * d[i]) =< Abs(d[i]) + Abs(d[j])
  /\ Dot(e, d) > 0
C12_clamp_keeps_direction ==
  (last.op = "computeTorque" /\ controller = "hocbf") =>
    LET d == C12_Offset
        e == Head3(last.ret.motion_error)
    IN  /\ Norm2(d) > One * One =>
             /\ C12_Parallel(e, d)
             /\ Norm2(e) =< One * One
             /\ Norm2(e) >= (One - 2) * (One - 2)
        /\ Norm2(d) =< One * One => e = d
        /\ (/\ d = <<2 * One, 0, 0>>
            /\ last.arg.stiffness = AsDiagonal(<<500, 500, 500, 50, 50, 50>>)
            /\ last.arg.q_dot = ZeroN) =>
             /\ e = <<One, 0, 0>>
             /\ last.ret.stiffness_wrench[1] = 500 * One

\* C12 happens: the HOCBF controller, with its arm turned by a quarter and
\* a translational stiffness of 500, computed the torque for a target 2.0
\* further along x
C12_witness ==
  /\ last.op = "computeTorque"
  /\ controller = "hocbf"
  /\ last.arg.q[1] = HalfPi
  /\ C12_Offset = <<2 * One, 0, 0>>
  /\ last.arg.stiffness = AsDiagonal(<<500, 500, 500, 50, 50, 50>>)
  /\ last.arg.q_dot = ZeroN
  /\ Head3(last.ret.motion_error) = <<One, 0, 0>>

\* the compensation torque of joint i the flags enable in the tick that has
\* just returned
C13_Enabled(i) ==
  FAdd(IF params_flags.gravity THEN JntToGravity(last.arg.q)[i] ELSE 0,
       IF params_flags.coriolis THEN JntToCoriolis(last.arg.q, last.arg.q_dot)[i] ELSE 0)

\* C13 (as amended): in every tick the torque written to the actuators is the
\* torque the safety filter returned, plus the gravity and Coriolis torques
\* that are enabled, saturated per joint; with both compensations disabled it
\* differs from the filter's torque by the saturation only.
C13_filtered_compensated_saturated ==
  last.op = "update" =>
    \A i \in Joints :
      /\ hw_cmd[i] = C1_Expected(FAdd(last.arg.tau_filtered[i], C13_Enabled(i)),
                                 m_joint_effort_limits[i])
      /\ (~params_flags.gravity /\ ~params_flags.coriolis) =>
           hw_cmd[i] = C1_Expected(last.arg.tau_filtered[i], m_joint_effort_limits[i])

\* C13 happens: a tick with gravity compensation enabled, in which the filter
\* returned a finite torque other than the nominal one, wrote a torque that
\* is not the saturated filter output
C13_witness ==
  /\ last.op = "update"
  /\ params_flags.gravity
  /\ last.arg.tau_filtered # last.arg.tau_nominal
  /\ \A i \in Joints : IsFinite(last.arg.tau_filtered[i])
  /\ \E i \in Joints :
       hw_cmd[i] # C1_Expected(last.arg.tau_filtered[i], m_joint_effort_limits[i])

\* C13 (as stated): in every tick the torque written to the actuators is the
\* saturated torque the safety filter returned, with nothing added.
C13_only_saturation ==
  last.op = "update" =>
    \A i \in Joints :
      hw_cmd[i] = C1_Expected(last.arg.tau_filtered[i], m_joint_effort_limits[i])

\* C14: the gravity torque is added exactly when gravity compensation is
\* enabled and the Coriolis torque exactly when Coriolis compensation is
\* enabled, one independently of the other; the safety filter is called
\* before, with the task torque alone, and the sum is saturated and written
\* after.
C14_Gravity == JntToGravity(last.arg.q)
C14_Coriolis == JntToCoriolis(last.arg.q, last.arg.q_dot)
C14_Plus(tau, add) == JntArray([i \in Joints |-> FAdd(tau[i], add[i])])
C14_compensation_follows_flags ==
  last.op = "update" =>
    LET tf == last.arg.tau_filtered
        filter == {k \in DOMAIN last.log : last.log[k].ev = "filter"}
        write == {k \in DOMAIN last.log : last.log[k].ev = "set_value"}
    IN  /\ last.arg.tau_tot =
             (CASE ~params_flags.gravity /\ ~params_flags.coriolis -> tf
                [] params_flags.gravity /\ ~params_flags.coriolis -> C14_Plus(tf, C14_Gravity)
                [] ~params_flags.gravity /\ params_flags.coriolis -> C14_Plus(tf, C14_Coriolis)
                [] params_flags.gravity /\ params_flags.coriolis ->
                     C14_Plus(C14_Plus(tf, C14_Gravity), C14_Coriolis))
        /\ \A k \in filter :
             /\ last.log[k].val.tau_nominal = last.arg.tau_nominal
             /\ \A w \in write : k < w
        /\ \A w \in write :
             \A i \in Joints :
               last.log[w].val[i] = C1_Expected(last.arg.tau_tot[i], m_joint_effort_limits[i])

\* C14 happens: a tick of a moving arm with Coriolis compensation enabled and
\* gravity compensation disabled, where both torques are non-zero, added the
\* Coriolis torque alone to the torque of the filter and wrote the sum
C14_witness ==
  /\ last.op = "update"
  /\ params_flags.coriolis /\ ~params_flags.gravity
  /\ C14_Gravity # ZeroN /\ C14_Coriolis # ZeroN
  /\ \A i \in Joints : IsFinite(last.arg.tau_filtered[i])
  /\ last.arg.tau_tot = C14_Plus(last.arg.tau_filtered, C14_Coriolis)
  /\ last.arg.tau_tot # last.arg.tau_filtered
  /\ hw_cmd = last.arg.tau_tot

\* the postural objective K_null (q0 - q) - D_null q_dot of the call that has
\* just returned, and its projection, scaled by the projector's denominator
C15_Objective ==
  JntArray([i \in Joints |->
     last.arg.null_space_stiffness * (last.arg.q_starting_pose[i] - last.arg.q[i])
       - last.arg.null_space_damping * last.arg.q_dot[i]])
C15_Projected == MatVec(last.ret.projector.num, C15_Objective)

C16_Step ==
  /\ m_received_initial_frame =>
       (m_received_initial_frame' /\ m_initial_frame' = m_initial_frame)
  /\ (~m_received_initial_frame /\ m_received_initial_frame') =>
       /\ last'.op = "targetFrameCallback"
       /\ last'.arg.frame_id = m_robot_base_link
       /\ m_initial_frame' = Frame(last'.arg.yaw, last'.arg.position)
C16_first_frame_fixed == ~m_received_initial_frame /\ [][C16_Step]_vars

\* C16 happens: a tick has run on a controller whose
\* first-received frame is one pose and whose last accepted target was the
\* other
C16_witness ==
  /\ last.op = "update"
  /\ m_received_initial_frame
  /\ m_initial_frame \in {Frame(u.a, u.p) : u \in TargetPoses}
  /\ last.arg.seen_p \in {Frame(u.a, u.p) : u \in TargetPoses}
  /\ last.arg.seen_p # m_initial_frame

\* C17: a wrench displayed in the base link from a link, and the result
\* displayed in the tip link for the same link and the same joint positions
\* of the solver, is the wrench one started with.
C17_display_round_trip ==
  last.op = "display" => last.ret.tip = last.arg.vector

\* C17 happens: a wrench with forces along x and y went through a link that
\* is turned by a quarter against the base link, and came back
C17_witness ==
  /\ last.op = "display"
  /\ last.arg.link = "tool0"
  /\ last.arg.q[1] = HalfPi
  /\ last.arg.vector[1] # 0 /\ last.arg.vector[2] # 0
  /\ last.ret.base # last.arg.vector
  /\ last.ret.tip = last.arg.vector

\* d is 2 * sqrt(k), with the square root taken on the grid of the model
C18_Critical(d, k) ==
  /\ d >= 0 /\ d % 2 = 0
  /\ (d \div 2) * (d \div 2) =< k
  /\ k < (d \div 2 + 1) * (d \div 2 + 1)

\* C18: after on_configure has read stiffness values k >= 0, the damping of
\* each of the six Cartesian axes is 2 * sqrt(k) of that axis's stiffness, and
\* the null space damping is 2 * sqrt of the null space stiffness.
C18_damping_is_critical ==
  (last.op = "on_configure" /\ last.ret = "SUCCESS") =>
    /\ \A i \in 1..3 :
         /\ m_cartesian_stiffness.top[i][i] = last.arg.stiffness[i]
         /\ m_cartesian_stiffness.bottom[i][i] = last.arg.stiffness[i + 3]
         /\ C18_Critical(m_cartesian_damping.top[i][i], last.arg.stiffness[i])
         /\ C18_Critical(m_cartesian_damping.bottom[i][i], last.arg.stiffness[i + 3])
    /\ m_null_space_stiffness = last.arg.nullspace_stiffness
    /\ C18_Critical(m_null_space_damping, last.arg.nullspace_stiffness)

\* C18 happens: the CartesianImpedanceController was configured with a
\* different stiffness on every translational axis and a null space stiffness
\* of 25, and holds the dampings 20 and 10
C18_witness ==
  /\ last.op = "on_configure" /\ last.ret = "SUCCESS"
  /\ controller = "ci"
  /\ last.arg.stiffness = <<2, 100, 7, 16, 3, 1>>
  /\ last.arg.nullspace_stiffness = 25
  /\ m_cartesian_damping.top[2][2] = 20
  /\ m_null_space_damping = 10

\* joint-space vectors: the unit vectors and two vectors with mixed signs
C19_Vectors ==
  {JntArray([i \in Joints |-> IF i = k THEN 1 ELSE 0]) : k \in Joints}
  \cup {JntArray([i \in Joints |-> i]), JntArray([i \in Joints |-> 2 * i - 3])}

C20_kinematics_of_this_tick ==
  (last.op = "update" /\ handles.pos >= 1) =>
    /\ last.arg.q = hw.pos
    /\ m_current_frame = JntToCart(hw.pos)
    /\ last.arg.motion_error =
         computeMotionError(last.arg.seen_M.M, last.arg.seen_p.p, JntToCart(hw.pos))
    /\ last.arg.tau_nominal =
         TaskTorqueWith(JntToJac(hw.pos), last.arg.q_dot, last.arg.motion_error,
                        m_cartesian_stiffness, m_cartesian_damping, m_end_effector_link,
                        ik_positions)

\* C20 happens: the joints have moved since activation, and a tick has
\* computed a non-zero nominal torque for a target away from the arm
C20_witness ==
  /\ last.op = "update"
  /\ handles.pos >= 1
  /\ hw.pos # m_q_starting_pose
  /\ last.arg.q = hw.pos
  /\ last.arg.motion_error # Zero6
  /\ last.arg.tau_nominal # ZeroN
  /\ JntToJac(hw.pos) # JntToJac(m_q_starting_pose)

\* ---------------------------------------------------------------- C21
\* C21: in every tick the joint velocity used by the damping term and by the
\* end-effector velocity handed to the safety filter is the velocity the
\* hardware state handles report at the start of that tick.
C21_velocity_read_from_hardware ==
  last.op = "update" =>
    /\ last.arg.q_dot = hw.vel
    /\ \A i \in 1..Len(last.log) :
         last.log[i].ev = "filter" =>
           last.log[i].val.dot_x = JacMul(JntToJac(hw.pos), hw.vel)

\* ---------------------------------------------------------------- C22
\* C22: in every tick the rotation displayInBaseLink uses to re-express the
\* stiffness and the damping is the end-effector rotation at the joint
\* positions read in that tick.
C22_display_rotation_of_this_tick ==
  last.op = "update" =>
    JntToCartSegment(ik_positions, m_end_effector_link).M = JntToCart(last.arg.q).M

\* ---------------------------------------------------------------- C23
\* C23: a tick's commanded torque depends only on the joint state the tick
\* reads, the target, the static configuration and the posture captured at
\* activation: of two ticks that follow each other with equal such inputs,
\* the second commands the torque the first commanded.
C23_equal_inputs_equal_torque ==
  [][(/\ last.op = "update"
      /\ last'.op = "update"
      /\ last'.arg.q = last.arg.q
      /\ last'.arg.q_dot_read = last.arg.q_dot_read
      /\ last'.arg.target = last.arg.target
      /\ last'.arg.q_starting_pose = last.arg.q_starting_pose
      /\ UNCHANGED <<baseCfgVars, ctrlCfgVars>>)
     => last'.arg.tau_tot = last.arg.tau_tot]_vars

\* ---------------------------------------------------------------- C24
\* C24: the operational-space inertia handed to the safety filter in a tick
\* is the inverse of J M^-1 J^T, with M the mass matrix and J the Jacobian at
\* the tick's joint positions.  With M^-1 = adj(M) / det(M), the matrix
\* Lambda is the inverse of, times det(M), is J adj(M) J^T.
C24_lambda_inverts_J_Minv_Jt ==
  last.op = "update" =>
    \A i \in 1..Len(last.log) :
      last.log[i].ev = "filter" =>
        LET J == MatT(JntToJac(last.arg.q))
            M == JntToMass(last.arg.q)
        IN  MatScale(last.log[i].val.Lambda.inverse_of, Det(M))
              = MatMul(MatMul(J, Adjugate(M)), MatT(J))

\* ---------------------------------------------------------------- C26
\* C26: the Coriolis torque handed to the safety filter in a tick is the
\* Coriolis torque at that tick's joint positions and velocities, whatever
\* the Coriolis compensation flag is.
C26_filter_gets_coriolis_torque ==
  last.op = "update" =>
    \A i \in 1..Len(last.log) :
      last.log[i].ev = "filter" =>
        last.log[i].val.tau_coriolis = JntToCoriolis(last.arg.q, last.arg.q_dot)

\* ---------------------------------------------------------------- C25
\* C25: a tick never modifies the target frame: no step of update() (the
\* steps that move the control thread) changes m_target_frame, so the target
\* after update() returns is the one before the call unless a target
\* callback ran in between.
C25_tick_keeps_target ==
  [][pc' # pc => m_target_frame' = m_target_frame]_vars

\* C25 happens: a tick has returned whose error was clamped (it is not the
\* offset of the target), and the target frame is still the one the tick read
C25_witness ==
  /\ last.op = "update"
  /\ Head3(last.arg.motion_error) # VSub(m_target_frame.p, m_current_frame.p)
  /\ m_target_frame = last.arg.seen_p
  /\ m_target_frame # m_current_frame

\* ---------------------------------------------------------------- C27
\* C27: in every sequence of lifecycle calls a state handle is read and a
\* command handle is written only while the handle lists are populated: no
\* call indexes an empty handle list.
C27_no_access_to_empty_handle_list ==
  \A i \in 1..Len(last.log) : last.log[i].ev \notin {"oob_read", "oob_write"}

\* ---------------------------------------------------------------- C28
\* C28: when the base class's on_activate fails to acquire the handles and
\* returns ERROR, the controller's on_activate returns ERROR as well, reads
\* no joint state, and the controller does not become active.
C28_failed_acquisition_fails_activation ==
  (last.op = "on_activate" /\ last.arg.base_ret = "ERROR") =>
    /\ last.ret = "ERROR"
    /\ \A i \in 1..Len(last.log) : last.log[i].ev # "oob_read"
    /\ lc # "active"

\* ---------------------------------------------------------------- C29
\* C29: every state interface on_activate acquires, the position and the
\* velocity of every configured joint, is among the names
\* state_interface_configuration returns.
C29_required_state_interfaces_requested ==
  (last.op = "state_interface_configuration" /\ m_configured) =>
    \A j \in 1..Len(m_joint_names) : \A t \in {"position", "velocity"} :
      \E k \in 1..Len(last.ret) : last.ret[k] = <<m_joint_names[j], t>>

\* ---------------------------------------------------------------- C30
\* C30: the dt given to the safety filter is the clock time elapsed since
\* the stored timestamp, which on_activate sets to the time of the
\* activation and every tick sets, once, to the sample its dt was computed
\* from; no other step changes it, so dt never reaches back beyond the
\* activation the tick runs in.
C30_dt_since_previous_sample ==
  [][/\ (lc = "inactive" /\ lc' = "active") => m_last_time' = clock
     /\ (pc = "idle" /\ pc' = "error") =>
          /\ tick'.current_time = clock
          /\ tick'.dt = clock - m_last_time
          /\ m_last_time' = m_last_time
     /\ (pc = "error" /\ pc' = "publish") =>
          /\ m_last_time' = tick.current_time
          /\ \E i \in 1..Len(tick'.log) :
               tick'.log[i].ev = "filter" /\ tick'.log[i].val.dt = tick.dt
     /\ (pc' = pc /\ ~(lc = "inactive" /\ lc' = "active")) => m_last_time' = m_last_time
     /\ (pc = "publish" /\ pc' = "idle") =>
          m_last_time' = m_last_time /\ last'.arg.dt = tick.dt]_vars

\* C30 happens: a tick has returned that ran one clock step after the time
\* stored before it, and the stored time is now the tick's sample
C30_witness ==
  /\ last.op = "update"
  /\ last.arg.dt >= 1
  /\ m_last_time = clock
  /\ \E i \in 1..Len(last.log) : last.log[i].ev = "filter" /\ last.log[i].val.dt = last.arg.dt

====
